---- MODULE Spec2Model ----
(***************************************************************************)
(* A model of the PDF generation engine: the conversion orchestrator       *)
(* (PDFGenerationEngine), the HTTP handlers that call it (PDFServer), the   *)
(* batch loop, the content-type detector and the render adapter            *)
(* (PdfGenerator, a shared browser with one page per render call).         *)
(*                                                                         *)
(* Text is a sequence of one-character strings.  An error message is a     *)
(* sequence of message parts, so that a prefix can be put in front of it.  *)
(***************************************************************************)
EXTENDS Integers, Sequences, FiniteSets, TLC

(***************************************************************************)
(* Characters and the string primitives of JavaScript the code uses.       *)
(***************************************************************************)
\* the backtick character (a string literal cannot hold it)
Backtick == "BACKTICK"

Lower == {"a", "b", "c", "d", "e", "f", "g", "h", "i", "j", "k", "l", "m",
          "n", "o", "p", "q", "r", "s", "t", "u", "v", "w", "x", "y", "z"}

Upper == {"A", "B", "C", "D", "E", "F", "G", "H", "I", "J", "K", "L", "M",
          "N", "O", "P", "Q", "R", "S", "T", "U", "V", "W", "X", "Y", "Z"}

Digit == {"0", "1", "2", "3", "4", "5", "6", "7", "8", "9"}

\* \s of a regular expression, and what String.prototype.trim removes
Space == {" ", "\t", "\n", "\r"}

\* the white space JSON.parse skips between tokens
JsonSpace == {" ", "\t", "\n", "\r"}

\* s.startsWith(c) for a one-character c
startsWith(s, c) == Len(s) >= 1 /\ s[1] = c

\* s.endsWith(c) for a one-character c
endsWith(s, c) == Len(s) >= 1 /\ s[Len(s)] = c

\* s.includes(c) for a one-character c
includes(s, c) == \E i \in 1..Len(s) : s[i] = c

\* whether the characters of t stand in s from position i on
MatchAt(s, i, t) ==
  /\ i >= 1
  /\ i + Len(t) - 1 <= Len(s)
  /\ \A k \in 1..Len(t) : s[i + k - 1] = t[k]

\* s.trim()
trim(s) ==
  LET keep == {i \in 1..Len(s) : s[i] \notin Space}
  IN  IF keep = {} THEN <<>>
      ELSE LET lo == CHOOSE i \in keep : \A j \in keep : i <= j
               hi == CHOOSE i \in keep : \A j \in keep : j <= i
           IN  SubSeq(s, lo, hi)

(***************************************************************************)
(* JSON.parse, as a recogniser: each Json* operator takes the text and a   *)
(* position and gives the position after what it read, or 0 when the text  *)
(* is not JSON there.                                                      *)
(***************************************************************************)
RECURSIVE SkipWs(_, _)
SkipWs(s, i) ==
  IF i <= Len(s) /\ s[i] \in JsonSpace THEN SkipWs(s, i + 1) ELSE i

RECURSIVE JsonDigits(_, _)
JsonDigits(s, i) ==
  IF i <= Len(s) /\ s[i] \in Digit THEN JsonDigits(s, i + 1) ELSE i

\* number: -? (0 | [1-9][0-9]*) (. [0-9]+)? ([eE] [+-]? [0-9]+)?
JsonNumber(s, i) ==
  LET a == IF i <= Len(s) /\ s[i] = "-" THEN i + 1 ELSE i
      b == IF a <= Len(s) /\ s[a] = "0" THEN a + 1
           ELSE IF a <= Len(s) /\ s[a] \in Digit THEN JsonDigits(s, a)
           ELSE 0
      c == IF b = 0 THEN 0
           ELSE IF b <= Len(s) /\ s[b] = "."
                THEN (IF JsonDigits(s, b + 1) > b + 1
                      THEN JsonDigits(s, b + 1) ELSE 0)
                ELSE b
      e == IF c = 0 THEN 0
           ELSE IF c <= Len(s) /\ s[c] \in {"e", "E"}
                THEN LET g == IF c + 1 <= Len(s) /\ s[c + 1] \in {"+", "-"}
                              THEN c + 2 ELSE c + 1
                     IN  IF JsonDigits(s, g) > g THEN JsonDigits(s, g) ELSE 0
                ELSE c
  IN  e

\* the rest of a string literal, from the character after its opening quote
RECURSIVE JsonStringRest(_, _)
JsonStringRest(s, i) ==
  IF i > Len(s) THEN 0
  ELSE IF s[i] = "\"" THEN i + 1
  ELSE IF s[i] = "\\"
       THEN (IF i + 1 <= Len(s) /\ s[i + 1] \in {"\"", "\\", "/", "b", "f", "n", "r", "t"}
             THEN JsonStringRest(s, i + 2) ELSE 0)
  ELSE IF s[i] \in {"\n", "\r", "\t"} THEN 0
  ELSE JsonStringRest(s, i + 1)

JsonString(s, i) ==
  IF i <= Len(s) /\ s[i] = "\"" THEN JsonStringRest(s, i + 1) ELSE 0

RECURSIVE JsonValue(_, _)
RECURSIVE JsonElements(_, _)
RECURSIVE JsonMembers(_, _)

\* elements of an array after "[" and white space: value (, value)* ]
JsonElements(s, i) ==
  LET v == JsonValue(s, i)
      w == IF v = 0 THEN 0 ELSE SkipWs(s, v)
  IN  IF w = 0 \/ w > Len(s) THEN 0
      ELSE IF s[w] = "]" THEN w + 1
      ELSE IF s[w] = "," THEN JsonElements(s, SkipWs(s, w + 1))
      ELSE 0

\* members of an object after "{" and white space: string : value (, ...)* }
JsonMembers(s, i) ==
  LET k == JsonString(s, i)
      c == IF k = 0 THEN 0 ELSE SkipWs(s, k)
      v == IF c = 0 \/ c > Len(s) THEN 0
           ELSE IF s[c] = ":" THEN JsonValue(s, SkipWs(s, c + 1)) ELSE 0
      w == IF v = 0 THEN 0 ELSE SkipWs(s, v)
  IN  IF w = 0 \/ w > Len(s) THEN 0
      ELSE IF s[w] = "}" THEN w + 1
      ELSE IF s[w] = "," THEN JsonMembers(s, SkipWs(s, w + 1))
      ELSE 0

JsonValue(s, i) ==
  IF i > Len(s) THEN 0
  ELSE IF s[i] = "{"
       THEN LET j == SkipWs(s, i + 1)
            IN  IF j <= Len(s) /\ s[j] = "}" THEN j + 1 ELSE JsonMembers(s, j)
  ELSE IF s[i] = "["
       THEN LET j == SkipWs(s, i + 1)
            IN  IF j <= Len(s) /\ s[j] = "]" THEN j + 1 ELSE JsonElements(s, j)
  ELSE IF s[i] = "\"" THEN JsonString(s, i)
  ELSE IF MatchAt(s, i, <<"t", "r", "u", "e">>) THEN i + 4
  ELSE IF MatchAt(s, i, <<"f", "a", "l", "s", "e">>) THEN i + 5
  ELSE IF MatchAt(s, i, <<"n", "u", "l", "l">>) THEN i + 4
  ELSE JsonNumber(s, i)

\* whether JSON.parse(s) returns (rather than throws)
JsonParses(s) ==
  LET v == JsonValue(s, SkipWs(s, 1))
  IN  v /= 0 /\ SkipWs(s, v) = Len(s) + 1

\* whether JSON.parse(s) returns null
JsonParsesToNull(s) == JsonParses(s) /\ trim(s) = <<"n", "u", "l", "l">>

(***************************************************************************)
(* detectContentType (utils/helpers.js)                                    *)
(***************************************************************************)
\* /<\/?[a-z][\s\S]*>/i
htmlPattern(s) ==
  \E i \in 1..Len(s) :
    /\ s[i] = "<"
    /\ LET j == IF i + 1 <= Len(s) /\ s[i + 1] = "/" THEN i + 2 ELSE i + 1
       IN  /\ j <= Len(s)
           /\ s[j] \in Lower \cup Upper
           /\ \E k \in (j + 1)..Len(s) : s[k] = ">"

\* the length of the run of characters of set C that starts at position i
RECURSIVE RunLen(_, _, _)
RunLen(s, i, C) == IF i <= Len(s) /\ s[i] \in C THEN 1 + RunLen(s, i + 1, C) ELSE 0

\* /^#{1,6}\s+/
mdHeader(s) ==
  \E n \in 1..6 : n <= RunLen(s, 1, {"#"}) /\ n + 1 <= Len(s) /\ s[n + 1] \in Space

\* /^\*\s+/
mdUnordered(s) == Len(s) >= 2 /\ s[1] = "*" /\ s[2] \in Space

\* /^\d+\.\s+/
mdOrdered(s) ==
  LET d == RunLen(s, 1, Digit)
  IN  d >= 1 /\ d + 2 <= Len(s) /\ s[d + 1] = "." /\ s[d + 2] \in Space

\* whether no line terminator stands in s[i..j]: "." of a regular expression
OneLine(s, i, j) == \A k \in i..j : s[k] \notin {"\n", "\r"}

\* /\*\*.*\*\*/
mdBold(s) ==
  \E i \in 1..Len(s) : \E j \in (i + 2)..Len(s) :
    /\ MatchAt(s, i, <<"*", "*">>) /\ MatchAt(s, j, <<"*", "*">>)
    /\ OneLine(s, i + 2, j - 1)

\* /\*.*\*/
mdItalic(s) ==
  \E i \in 1..Len(s) : \E j \in (i + 1)..Len(s) :
    s[i] = "*" /\ s[j] = "*" /\ OneLine(s, i + 1, j - 1)

\* /\[.*\]\(.*\)/
mdLink(s) ==
  \E i \in 1..Len(s) : \E j \in (i + 1)..Len(s) : \E k \in (j + 2)..Len(s) :
    /\ s[i] = "[" /\ MatchAt(s, j, <<"]", "(">>) /\ s[k] = ")"
    /\ OneLine(s, i + 1, j - 1) /\ OneLine(s, j + 2, k - 1)

\* three backticks in a row
mdFence(s) == \E i \in 1..Len(s) : MatchAt(s, i, <<Backtick, Backtick, Backtick>>)

\* /^>/
mdQuote(s) == startsWith(s, ">")

markdownPatterns(s) ==
  \/ mdHeader(s) \/ mdUnordered(s) \/ mdOrdered(s) \/ mdBold(s)
  \/ mdItalic(s) \/ mdLink(s) \/ mdFence(s) \/ mdQuote(s)

\* a detector that tries the Markdown patterns before the tag pattern
detectContentTypeMarkdownFirst(content) ==
  LET trimmed == trim(content)
  IN  IF /\ \/ startsWith(trimmed, "{") /\ endsWith(trimmed, "}")
            \/ startsWith(trimmed, "[") /\ endsWith(trimmed, "]")
         /\ JsonParses(trimmed)
      THEN "json"
      ELSE IF markdownPatterns(trimmed)
      THEN "markdown"
      ELSE IF includes(trimmed, "<") /\ includes(trimmed, ">") /\ htmlPattern(trimmed)
      THEN "html"
      ELSE "text"

detectContentType(content) ==
  LET trimmed == trim(content)
  IN  IF /\ \/ startsWith(trimmed, "{") /\ endsWith(trimmed, "}")
            \/ startsWith(trimmed, "[") /\ endsWith(trimmed, "]")
         /\ JsonParses(trimmed)
      THEN "json"
      ELSE IF includes(trimmed, "<") /\ includes(trimmed, ">") /\ htmlPattern(trimmed)
      THEN "html"
      ELSE IF markdownPatterns(trimmed)
      THEN "markdown"
      ELSE "text"

(***************************************************************************)
(* Option objects.  An options object is a function from the keys it has   *)
(* to their values; a key it lacks reads as undefined.  String values and  *)
(* undefined are strings, printBackground and displayHeaderFooter are      *)
(* booleans, and a margin object is the sequence of its <<key, value>>     *)
(* pairs in insertion order.                                               *)
(***************************************************************************)
Undefined == "<undefined>"

\* v || d for a string (or undefined) v
OrElse(v, d) == IF v \in {"", Undefined} THEN d ELSE v

\* o[k] of JavaScript: undefined when o has no key k
Get(o, k) == IF k \in DOMAIN o THEN o[k] ELSE Undefined

\* const { k1, k2, ...rest } = o: the rest
Rest(o, K) == [k \in (DOMAIN o) \ K |-> o[k]]

validFormats == <<"A4", "A3", "A5", "Legal", "Letter", "Tabloid">>

marginKeys == <<"top", "right", "bottom", "left">>

Range(q) == {q[i] : i \in 1..Len(q)}

\* array.filter(keep), keep a set of values
RECURSIVE SelectIn(_, _)
SelectIn(q, keep) ==
  IF q = <<>> THEN <<>>
  ELSE (IF Head(q) \in keep THEN <<Head(q)>> ELSE <<>>) \o SelectIn(Tail(q), keep)

\* a validatePdfOptions that stops at the first margin key it rejects
validatePdfOptionsFirstKey(options) ==
  LET fmt == Get(options, "format")
      formatErrors ==
        IF fmt \notin {"", Undefined} /\ fmt \notin Range(validFormats)
        THEN << <<"Invalid format: ", fmt>> >> ELSE <<>>
      keys == IF "margin" \in DOMAIN options
              THEN [i \in 1..Len(options["margin"]) |-> options["margin"][i][1]]
              ELSE <<>>
      badKeys == SelectIn(keys, Range(keys) \ Range(marginKeys))
  IN  formatErrors
      \o (IF badKeys = <<>> THEN <<>> ELSE << <<"Invalid margin key: ", badKeys[1]>> >>)

\* validatePdfOptions: the list of messages, each a sequence of parts
validatePdfOptions(options) ==
  LET fmt == Get(options, "format")
      formatErrors ==
        IF fmt \notin {"", Undefined} /\ fmt \notin Range(validFormats)
        THEN << <<"Invalid format: ", fmt>> >> ELSE <<>>
      keys == IF "margin" \in DOMAIN options
              THEN [i \in 1..Len(options["margin"]) |-> options["margin"][i][1]]
              ELSE <<>>
      badKeys == SelectIn(keys, Range(keys) \ Range(marginKeys))
      marginErrors == [i \in 1..Len(badKeys) |-> <<"Invalid margin key: ", badKeys[i]>>]
  IN  formatErrors \o marginErrors

(***************************************************************************)
(* The converters, as far as the orchestrator sees them: whether convert   *)
(* throws, with which message, and otherwise which document it returns.    *)
(* A document is named by what determines it: the converter, the content   *)
(* and the options the converter reads (title, and for JSON the display    *)
(* mode).                                                                  *)
(***************************************************************************)
ConverterNames == {"text", "html", "json", "markdown"}

\* a jsonToHtml without a default case: the mode is the format as given
jsonModeAsGiven(options) == OrElse(Get(options, "format"), "structured")

\* JsonConverter.jsonToHtml: the rendering algorithm options.format selects
jsonMode(options) ==
  LET format == OrElse(Get(options, "format"), "structured")
  IN  IF format = "table" THEN "table"
      ELSE IF format = "raw" THEN "raw"
      ELSE "structured"

Document(type, content, options) ==
  [by      |-> type,
   content |-> content,
   title   |-> OrElse(Get(options, "title"), ""),
   mode    |-> IF type = "json" THEN jsonMode(options) ELSE ""]

\* converters[type].convert(content, options): [ok, html, error]
Convert(type, content, options) ==
  IF type = "json" /\ ~JsonParses(content)
  THEN [ok |-> FALSE, html |-> Document("", <<>>, <<>>), error |-> <<"Invalid JSON: ", "parse error">>]
  ELSE IF type = "json" /\ JsonParsesToNull(content) /\ OrElse(Get(options, "title"), "") = ""
  THEN [ok |-> FALSE, html |-> Document("", <<>>, <<>>),
        error |-> <<"Cannot read properties of null (reading 'title')">>]
  ELSE [ok |-> TRUE, html |-> Document(type, content, options), error |-> <<>>]

(***************************************************************************)
(* Bounds of the model.                                                    *)
(***************************************************************************)
\* concurrent direct callers of generateFromHTML
NumCalls == 2

\* calls of PdfGenerator.close in one behaviour
MaxCloses == 1

\* items of one batch
MaxBatch == 2

(***************************************************************************)
(* State.                                                                  *)
(***************************************************************************)
VARIABLES
  \* PdfGenerator
  browser,      \* this.browser: 0 for null, else the id of a browser
  launched,     \* how many browsers puppeteer.launch has started (ids 1..launched)
  alive,        \* the ids of the browsers that are running
  pages,        \* the open pages, each [owner |-> caller, b |-> browser]
  calls,        \* per caller, the frame of its generateFromHTML call
  closer,       \* the frame of PdfGenerator.close
  printed,      \* what page.pdf was asked to print: [caller, html, layout]
  \* PDFGenerationEngine and PDFServer
  pc,           \* where the engine's flow is
  req,          \* the request being served
  ctp,          \* the frame of convertToPDF
  cf,           \* the frame of convertFile
  batch,        \* the frame of batchConvert
  out,          \* what the request's caller got
  fsOut,        \* the output files written: path -> bytes
  fsDirs,       \* the directories that exist
  \* the converters
  cv,           \* the frame of a converter's convert
  \* the helpers
  fn            \* the frame of a call of a helper of utils/helpers.js

genVars == <<browser, launched, alive, pages, calls, closer, printed>>

engVars == <<pc, req, ctp, cf, batch, out, fsOut, fsDirs>>

vars == <<genVars, engVars, cv, fn>>

\* the engine's own caller id at the generator; direct callers are 1..NumCalls
Engine == 0

Callers == 0..NumCalls

(***************************************************************************)
(* PdfGenerator (generators/pdfGenerator.js)                               *)
(***************************************************************************)
NoBytes == [none |-> TRUE]

NoDocument == Document("", <<>>, <<>>)

DefaultMargin ==
  << <<"top", "1cm">>, <<"right", "1cm">>, <<"bottom", "1cm">>, <<"left", "1cm">> >>

\* the pdfOptions generateFromHTML hands to page.pdf
PdfLayout(options) ==
  [format              |-> OrElse(Get(options, "format"), "A4"),
   margin              |-> IF "margin" \in DOMAIN options
                           THEN options["margin"] ELSE DefaultMargin,
   printBackground     |-> IF "printBackground" \in DOMAIN options
                           THEN options["printBackground"] /= FALSE ELSE TRUE,
   preferCSSPageSize   |-> IF "preferCSSPageSize" \in DOMAIN options
                           THEN options["preferCSSPageSize"] /= FALSE ELSE TRUE,
   displayHeaderFooter |-> IF "displayHeaderFooter" \in DOMAIN options
                           THEN options["displayHeaderFooter"] ELSE FALSE,
   headerTemplate      |-> OrElse(Get(options, "headerTemplate"), ""),
   footerTemplate      |-> OrElse(Get(options, "footerTemplate"), "")]

\* the PDF page.pdf produces: named by the document and the layout it prints
PdfOf(html, layout) == [html |-> html, layout |-> layout]

IdleCall ==
  [pc |-> "idle", b |-> 0, html |-> NoDocument, options |-> <<>>,
   opened |-> FALSE, ok |-> FALSE, bytes |-> NoBytes, error |-> <<>>]

\* an invocation that hands over no document
InvokeWithoutDocument(r, html, options) ==
  [calls EXCEPT ![r] = [IdleCall EXCEPT !.pc = "init", !.options = options]]

\* generateFromHTML(html, options) is invoked by caller r
Invoke(r, html, options) ==
  [calls EXCEPT ![r] = [IdleCall EXCEPT !.pc = "init", !.html = html, !.options = options]]

PageOf(r) == [owner |-> r, b |-> calls[r].b]

\* the call of r ends by throwing message e
Thrown(r, e) == [calls[r] EXCEPT !.pc = "done", !.ok = FALSE, !.bytes = NoBytes, !.error = e]

\* initBrowser, up to its await: launch a browser when this.browser is null
InitBrowser(r) ==
  /\ calls[r].pc = "init"
  /\ calls' = [calls EXCEPT ![r] =
                 IF browser = 0
                 THEN [@ EXCEPT !.pc = "launch"]
                 ELSE [@ EXCEPT !.pc = "newPage", !.b = browser]]
  /\ UNCHANGED <<browser, launched, alive, pages, closer, printed>>

\* puppeteer.launch settles: this.browser = the new browser, or the call throws
LaunchSettles(r) ==
  /\ calls[r].pc = "launch"
  /\ \/ /\ launched' = launched + 1
        /\ alive' = alive \cup {launched + 1}
        /\ browser' = launched + 1
        /\ calls' = [calls EXCEPT ![r] = [@ EXCEPT !.pc = "newPage", !.b = launched + 1]]
     \/ /\ calls' = [calls EXCEPT ![r] = Thrown(r, <<"Failed to launch the browser process">>)]
        /\ UNCHANGED <<launched, alive, browser>>
  /\ UNCHANGED <<pages, closer, printed>>

\* browser.newPage(): a page of the caller's own, or the call throws
NewPage(r) ==
  /\ calls[r].pc = "newPage"
  /\ \/ /\ calls[r].b \in alive
        /\ pages' = pages \cup {PageOf(r)}
        /\ calls' = [calls EXCEPT ![r] = [@ EXCEPT !.pc = "setContent", !.opened = TRUE]]
     \/ /\ calls' = [calls EXCEPT ![r] = Thrown(r, <<"Protocol error (Target.createTarget)">>)]
        /\ UNCHANGED pages
  /\ UNCHANGED <<browser, launched, alive, closer, printed>>

\* page.setContent(html): on failure the finally block runs next
SetContent(r) ==
  /\ calls[r].pc = "setContent"
  /\ \/ /\ PageOf(r) \in pages
        /\ calls' = [calls EXCEPT ![r] = [@ EXCEPT !.pc = "pdf"]]
     \/ calls' = [calls EXCEPT ![r] =
                   [@ EXCEPT !.pc = "close", !.ok = FALSE, !.error = <<"Navigation failed">>]]
  /\ UNCHANGED <<browser, launched, alive, pages, closer, printed>>

\* page.pdf(pdfOptions)
Pdf(r) ==
  /\ calls[r].pc = "pdf"
  /\ LET layout == PdfLayout(calls[r].options)
     IN  \/ /\ PageOf(r) \in pages
            /\ printed' = Append(printed, [caller |-> r, html |-> calls[r].html, layout |-> layout])
            /\ calls' = [calls EXCEPT ![r] =
                           [@ EXCEPT !.pc = "close", !.ok = TRUE,
                                     !.bytes = PdfOf(calls[r].html, layout)]]
         \/ /\ calls' = [calls EXCEPT ![r] =
                           [@ EXCEPT !.pc = "close", !.ok = FALSE, !.error = <<"Printing failed">>]]
            /\ UNCHANGED printed
  /\ UNCHANGED <<browser, launched, alive, pages, closer>>

\* a generateFromHTML without try/finally: page.close() only after a print
ClosePageOnSuccessOnly(r) ==
  /\ calls[r].pc = "close"
  /\ pages' = IF calls[r].ok THEN pages \ {PageOf(r)} ELSE pages
  /\ calls' = [calls EXCEPT ![r] = [@ EXCEPT !.pc = "done"]]
  /\ UNCHANGED <<browser, launched, alive, closer, printed>>

\* finally { await page.close() }: the page goes; when its browser is gone
\* already, page.close throws and that error is the one the call ends with
ClosePage(r) ==
  /\ calls[r].pc = "close"
  /\ IF PageOf(r) \in pages
     THEN /\ pages' = pages \ {PageOf(r)}
          /\ calls' = [calls EXCEPT ![r] = [@ EXCEPT !.pc = "done"]]
     ELSE /\ calls' = [calls EXCEPT ![r] = Thrown(r, <<"Protocol error: Connection closed">>)]
          /\ UNCHANGED pages
  /\ UNCHANGED <<browser, launched, alive, closer, printed>>

\* close(), up to its await: browser.close() is asked of this.browser
CloseBegin ==
  /\ closer.pc = "idle"
  /\ closer.n < MaxCloses
  /\ closer' = IF browser = 0
               THEN [closer EXCEPT !.n = @ + 1]
               ELSE [pc |-> "closing", b |-> browser, n |-> closer.n + 1]
  /\ UNCHANGED <<browser, launched, alive, pages, calls, printed>>

\* browser.close() settles: the browser and its pages are gone; this.browser = null
CloseEnd ==
  /\ closer.pc = "closing"
  /\ alive' = alive \ {closer.b}
  /\ pages' = {p \in pages : p.b /= closer.b}
  /\ browser' = 0
  /\ closer' = [closer EXCEPT !.pc = "idle", !.b = 0]
  /\ UNCHANGED <<launched, calls, printed>>

(***************************************************************************)
(* The generator under concurrent callers: each of the callers 1..NumCalls *)
(* calls generateFromHTML once, and close() is called at any time.         *)
(***************************************************************************)
GenDocs == {Document("html", <<"<", "p", ">">>, <<>>)}

GenOptions == {<<>>, [format |-> "A3"]}

\* a direct caller invokes generateFromHTML
Call(r) ==
  /\ r /= Engine
  /\ calls[r].pc = "idle"
  /\ \E h \in GenDocs, o \in GenOptions : calls' = Invoke(r, h, o)
  /\ UNCHANGED <<browser, launched, alive, pages, closer, printed>>

(***************************************************************************)
(* PDFGenerationEngine.convertToPDF (index.js)                             *)
(***************************************************************************)
\* the property names every object inherits from Object.prototype
ObjectPrototypeKeys ==
  {"constructor", "toString", "toLocaleString", "valueOf", "hasOwnProperty",
   "isPrototypeOf", "propertyIsEnumerable", "__proto__", "__defineGetter__",
   "__defineSetter__", "__lookupGetter__", "__lookupSetter__"}

\* this.converters[type]: a converter, a value inherited from Object.prototype
\* (truthy, and without a convert method), or undefined
Lookup(type) ==
  IF type \in ConverterNames THEN "converter"
  ELSE IF type \in ObjectPrototypeKeys THEN "inherited"
  ELSE "undefined"

\* `${v}`
Str(v) == IF v = Undefined THEN "undefined" ELSE v

\* const converterOptions = { format, ...options }
ConverterOptions(options) ==
  [k \in (DOMAIN options) \cup {"format"} |-> Get(options, k)]

\* const { format, ...pdfOptions } = options
PdfOptions(options) == Rest(options, {"format"})

\* a catch block that drops the message of the error it caught
WrapDropsMessage(message) == <<"PDF generation failed: ">>

\* catch (error) { throw new Error(`PDF generation failed: ${error.message}`) }
Wrap(message) == <<"PDF generation failed: ">> \o message

NoCtp ==
  [pc |-> "none", content |-> <<>>, type |-> Undefined, options |-> <<>>,
   html |-> NoDocument, bytes |-> NoBytes, error |-> <<>>,
   \* for the record: the step that threw and its message, and the calls made
   origin |-> <<>>, failedAt |-> "", convCalls |-> <<>>, renderCalls |-> <<>>]

\* convertToPDF(content, type, options) is invoked
NewCtp(content, type, options) ==
  [NoCtp EXCEPT !.pc = "check", !.content = content, !.type = type, !.options = options]

\* convertToPDF throws: the step that failed and its message are kept
Fail(at, message) ==
  [ctp EXCEPT !.pc = "thrown", !.failedAt = at, !.origin = message, !.error = Wrap(message)]

CtpSettled == ctp.pc \in {"returned", "thrown"}

\* if (!this.converters[type]) throw ...; a value without a convert method
\* passes this test and the call of its convert throws a TypeError
CtpCheck ==
  /\ ctp.pc = "check"
  /\ ctp' = CASE Lookup(ctp.type) = "undefined" ->
                   Fail("check", <<"Unsupported content type: ", Str(ctp.type)>>)
              [] Lookup(ctp.type) = "inherited" ->
                   Fail("dispatch", <<"this.converters[type].convert is not a function">>)
              [] OTHER -> [ctp EXCEPT !.pc = "convert"]
  /\ UNCHANGED <<pc, req, cf, batch, out, fsOut, fsDirs>>
  /\ UNCHANGED genVars

\* await this.converters[type].convert(content, converterOptions)
CtpConvert ==
  /\ ctp.pc = "convert"
  /\ LET options == ConverterOptions(ctp.options)
         r == Convert(ctp.type, ctp.content, options)
         seen == [ctp EXCEPT !.convCalls =
                    Append(@, [type |-> ctp.type, content |-> ctp.content,
                               options |-> options, ok |-> r.ok, html |-> r.html])]
     IN  ctp' = IF r.ok THEN [seen EXCEPT !.pc = "html", !.html = r.html]
                ELSE [seen EXCEPT !.pc = "thrown", !.failedAt = "convert",
                                  !.origin = r.error, !.error = Wrap(r.error)]
  /\ UNCHANGED <<pc, req, cf, batch, out, fsOut, fsDirs>>
  /\ UNCHANGED genVars

\* this.pdfGenerator.generateFromHTML(htmlContent, pdfOptions) is invoked
CtpRender ==
  /\ ctp.pc = "html"
  /\ calls' = Invoke(Engine, ctp.html, PdfOptions(ctp.options))
  /\ ctp' = [ctp EXCEPT !.pc = "render",
                        !.renderCalls = Append(@, [html |-> calls'[Engine].html,
                                                   options |-> calls'[Engine].options])]
  /\ UNCHANGED <<pc, req, cf, batch, out, fsOut, fsDirs>>
  /\ UNCHANGED <<browser, launched, alive, pages, closer, printed>>

\* the await of generateFromHTML settles: return pdfBuffer, or the catch block
CtpSettle ==
  /\ ctp.pc = "render"
  /\ calls[Engine].pc = "done"
  /\ ctp' = IF calls[Engine].ok
            THEN [ctp EXCEPT !.pc = "returned", !.bytes = calls[Engine].bytes]
            ELSE Fail("render", calls[Engine].error)
  /\ UNCHANGED <<pc, req, cf, batch, out, fsOut, fsDirs>>
  /\ UNCHANGED genVars

(***************************************************************************)
(* The inputs of the requests.                                             *)
(***************************************************************************)
cJson == <<"{", "\"", "a", "\"", ":", "1", "}">>

cBracketed == <<"{", "x", "}">>

cHtml == <<"<", "p", ">">>

cMarkdown == <<"#", " ", "T">>

cText == <<"h", "i">>

cNull == <<"n", "u", "l", "l">>

Contents == {cJson, cBracketed, cHtml, cMarkdown, cText, cNull, <<>>}

\* a declared type: a converter's name, none ("" or undefined), or another string
Types == ConverterNames \cup {"", Undefined, "auto", "pdf", "constructor"}

OptionSets ==
  {<<>>,
   [format |-> "A3"],
   [format |-> "B5"],
   [format |-> "table"],
   [title |-> "T"],
   [pageFormat |-> "B5"],
   [margin |-> << <<"top", "2cm">> >>, printBackground |-> FALSE,
    displayHeaderFooter |-> TRUE, headerTemplate |-> "H"],
   [margin |-> << <<"top", "2cm">>, <<"inner", "1cm">> >>]}

\* the fields of a multipart form are strings
FormOptionSets == {<<>>, [format |-> "A3"], [format |-> "table"], [title |-> "T"]}

Extensions == {"", ".txt", ".json", ".md"}

(***************************************************************************)
(* A direct call of convertToPDF, as the CLI and the tests make it.        *)
(***************************************************************************)
NoRequest ==
  [entry |-> "none", content |-> <<>>, type |-> Undefined, options |-> <<>>,
   ext |-> "", files |-> <<>>]

NoCf ==
  [pc |-> "none", input |-> <<>>, output |-> <<>>, type |-> Undefined,
   bytes |-> NoBytes, error |-> <<>>]

NoBatch == [i |-> 0, results |-> <<>>, started |-> <<>>]

NoOut == [kind |-> "none"]

StartConvertToPDF ==
  /\ pc = "idle"
  /\ \E c \in Contents, t \in Types, o \in OptionSets :
       /\ req' = [NoRequest EXCEPT !.entry = "convertToPDF", !.content = c,
                                   !.type = t, !.options = o]
       /\ ctp' = NewCtp(c, t, o)
  /\ pc' = "busy"
  /\ UNCHANGED <<cf, batch, out, fsOut, fsDirs>>
  /\ UNCHANGED genVars

FinishConvertToPDF ==
  /\ pc = "busy"
  /\ req.entry = "convertToPDF"
  /\ CtpSettled
  /\ out' = [kind |-> "call", ok |-> ctp.pc = "returned", bytes |-> ctp.bytes,
             error |-> ctp.error]
  /\ pc' = "done"
  /\ UNCHANGED <<req, ctp, cf, batch, fsOut, fsDirs>>
  /\ UNCHANGED genVars

(***************************************************************************)
(* PDFServer.handleConvert and handleUpload (server/app.js)                *)
(***************************************************************************)
Http(status, error, details, message, pdf) ==
  [kind |-> "http", status |-> status, error |-> error, details |-> details,
   message |-> message, pdf |-> pdf]

\* PDFServer.getTypeFromExtension: typeMap[ext]
getTypeFromExtension(ext) ==
  CASE ext = ".txt" -> "text"
    [] ext \in {".html", ".htm"} -> "html"
    [] ext = ".json" -> "json"
    [] ext \in {".md", ".markdown"} -> "markdown"
    [] OTHER -> Undefined

\* handleConvert: const contentType = type || detectContentType(content)
ConvertContentType(type, content) ==
  IF type \in {"", Undefined} THEN detectContentType(content) ELSE type

\* handleUpload: type || (getTypeFromExtension(fileExt) || detectContentType(content))
UploadContentType(type, ext, content) ==
  IF type \in {"", Undefined}
  THEN OrElse(getTypeFromExtension(ext), detectContentType(content))
  ELSE type

\* handleConvert: const { format, title, ...pdfOnlyOptions } = options
PdfOnlyOptions(options) == Rest(options, {"format", "title"})

\* handleConvert, up to its await of convertToPDF
StartHandleConvert ==
  /\ pc = "idle"
  /\ \E c \in Contents, t \in Types, o \in OptionSets :
       LET validationErrors == validatePdfOptions(PdfOnlyOptions(o))
       IN  /\ req' = [NoRequest EXCEPT !.entry = "handleConvert", !.content = c,
                                       !.type = t, !.options = o]
           /\ IF c = <<>>
              THEN /\ out' = Http(400, "Content is required", <<>>, <<>>, NoBytes)
                   /\ pc' = "done"
                   /\ UNCHANGED ctp
              ELSE IF Len(validationErrors) > 0
              THEN /\ out' = Http(400, "Invalid PDF options", validationErrors, <<>>, NoBytes)
                   /\ pc' = "done"
                   /\ UNCHANGED ctp
              ELSE /\ ctp' = NewCtp(c, ConvertContentType(t, c), o)
                   /\ pc' = "busy"
                   /\ UNCHANGED out
  /\ UNCHANGED <<cf, batch, fsOut, fsDirs>>
  /\ UNCHANGED genVars

\* handleConvert after the await: res.send(pdfBuffer), or the catch block
RespondHandleConvert ==
  /\ pc = "busy"
  /\ req.entry = "handleConvert"
  /\ CtpSettled
  /\ out' = IF ctp.pc = "returned"
            THEN Http(200, "", <<>>, <<>>, ctp.bytes)
            ELSE Http(500, "PDF generation failed", <<>>, ctp.error, NoBytes)
  /\ pc' = "done"
  /\ UNCHANGED <<req, ctp, cf, batch, fsOut, fsDirs>>
  /\ UNCHANGED genVars

\* handleUpload, up to its await of convertToPDF
StartHandleUpload ==
  /\ pc = "idle"
  /\ \E hasFile \in BOOLEAN, e \in Extensions, c \in Contents \ {<<>>},
        t \in Types, o \in FormOptionSets :
       /\ req' = [NoRequest EXCEPT !.entry = "handleUpload", !.content = c,
                                   !.type = t, !.options = o, !.ext = e]
       /\ IF ~hasFile
          THEN /\ out' = Http(400, "No file uploaded", <<>>, <<>>, NoBytes)
               /\ pc' = "done"
               /\ UNCHANGED ctp
          ELSE /\ ctp' = NewCtp(c, UploadContentType(t, e, c), o)
               /\ pc' = "busy"
               /\ UNCHANGED out
  /\ UNCHANGED <<cf, batch, fsOut, fsDirs>>
  /\ UNCHANGED genVars

\* handleUpload after the await
RespondHandleUpload ==
  /\ pc = "busy"
  /\ req.entry = "handleUpload"
  /\ CtpSettled
  /\ out' = IF ctp.pc = "returned"
            THEN Http(200, "", <<>>, <<>>, ctp.bytes)
            ELSE Http(500, "File conversion failed", <<>>, ctp.error, NoBytes)
  /\ pc' = "done"
  /\ UNCHANGED <<req, ctp, cf, batch, fsOut, fsDirs>>
  /\ UNCHANGED genVars

(***************************************************************************)
(* PDFGenerationEngine.convertFile and batchConvert (index.js).  A path is *)
(* the sequence of its segments, and <<>> stands for a path that is        *)
(* undefined (the item has no such field).                                 *)
(***************************************************************************)
\* the input files that exist, with their content
InputFiles ==
  [p \in {<<"in", "a.txt">>, <<"in", "bad.json">>} |->
     IF p = <<"in", "a.txt">> THEN cText ELSE cBracketed]

\* an item of the files array: null, or an object with some of input, output, type
NullItem == [isNull |-> TRUE, input |-> <<>>, output |-> <<>>, type |-> Undefined]

Item(input, output, type) ==
  [isNull |-> FALSE, input |-> input, output |-> output, type |-> type]

BatchItems ==
  {NullItem,
   Item(<<>>, <<>>, Undefined),
   Item(<<"in", "a.txt">>, <<"out", "a.pdf">>, "text"),
   Item(<<"in", "bad.json">>, <<"out", "b.pdf">>, "json"),
   Item(<<"in", "none.md">>, <<"out", "c.pdf">>, "markdown")}

BatchLists == UNION {[1..n -> BatchItems] : n \in 0..MaxBatch}

BatchOptionSets == {<<>>, [format |-> "A3"]}

\* path.dirname
Dirname(path) == SubSeq(path, 1, Len(path) - 1)

\* catch (error) { throw new Error(`File conversion failed: ${error.message}`) }
WrapFile(message) == <<"File conversion failed: ">> \o message

CfThrown(message) == [cf EXCEPT !.pc = "thrown", !.error = WrapFile(message)]

\* batchConvert is invoked: results = []
StartBatch ==
  /\ pc = "idle"
  /\ \E files \in BatchLists, o \in BatchOptionSets :
       req' = [NoRequest EXCEPT !.entry = "batchConvert", !.files = files, !.options = o]
  /\ batch' = [i |-> 1, results |-> <<>>, started |-> <<>>]
  /\ pc' = "busy"
  /\ UNCHANGED <<ctp, cf, out, fsOut, fsDirs>>
  /\ UNCHANGED genVars

\* a loop that does not await convertFile before it goes on
LoopReadyWithoutAwait == TRUE

\* for (const file of files) { ... await this.convertFile(...) ... }: the
\* loop goes on only when the convertFile call of the item before has settled
LoopReady == cf.pc = "none"

\* the loop takes the next item and invokes convertFile(file.input, ...); a
\* null item makes file.input throw in the try block and again in the catch
\* block, so that batchConvert itself throws
BatchItem ==
  /\ pc = "busy"
  /\ req.entry = "batchConvert"
  /\ LoopReady
  /\ batch.i <= Len(req.files)
  /\ LET file == req.files[batch.i]
     IN  IF file.isNull
         THEN /\ out' = [kind |-> "batch", returned |-> FALSE, results |-> <<>>,
                         error |-> <<"Cannot read properties of null (reading 'input')">>]
              /\ pc' = "done"
              /\ UNCHANGED <<cf, batch>>
         ELSE /\ cf' = [NoCf EXCEPT !.pc = "read", !.input = file.input,
                                    !.output = file.output, !.type = file.type]
              /\ batch' = [batch EXCEPT !.started = Append(@, batch.i)]
              /\ UNCHANGED <<out, pc>>
  /\ UNCHANGED <<req, ctp, fsOut, fsDirs>>
  /\ UNCHANGED genVars

\* await fs.readFile(inputPath, 'utf-8'), then convertToPDF is invoked
CfRead ==
  /\ cf.pc = "read"
  /\ IF cf.input = <<>>
     THEN /\ cf' = CfThrown(<<"The \"path\" argument must be of type string">>)
          /\ UNCHANGED ctp
     ELSE IF cf.input \notin DOMAIN InputFiles
     THEN /\ cf' = CfThrown(<<"ENOENT: no such file or directory">>)
          /\ UNCHANGED ctp
     ELSE /\ cf' = [cf EXCEPT !.pc = "convert"]
          /\ ctp' = NewCtp(InputFiles[cf.input], cf.type, req.options)
  /\ UNCHANGED <<pc, req, batch, out, fsOut, fsDirs>>
  /\ UNCHANGED genVars

\* a convertFile that opens its output file before it converts: a failed
\* conversion leaves an empty file and its directory behind
CfConvertedOpensOutput ==
  /\ cf.pc = "convert"
  /\ CtpSettled
  /\ cf' = IF ctp.pc = "returned"
           THEN [cf EXCEPT !.pc = "ensureDir", !.bytes = ctp.bytes]
           ELSE CfThrown(ctp.error)
  /\ ctp' = NoCtp
  /\ fsDirs' = fsDirs \cup {Dirname(cf.output)}
  /\ fsOut' = [p \in (DOMAIN fsOut) \cup {cf.output} |->
                IF p = cf.output THEN NoBytes ELSE fsOut[p]]
  /\ UNCHANGED <<pc, req, batch, out>>
  /\ UNCHANGED genVars

\* the await of convertToPDF settles in convertFile
CfConverted ==
  /\ cf.pc = "convert"
  /\ CtpSettled
  /\ cf' = IF ctp.pc = "returned"
           THEN [cf EXCEPT !.pc = "ensureDir", !.bytes = ctp.bytes]
           ELSE CfThrown(ctp.error)
  /\ ctp' = NoCtp
  /\ UNCHANGED <<pc, req, batch, out, fsOut, fsDirs>>
  /\ UNCHANGED genVars

\* await ensureDirectoryExists(path.dirname(outputPath))
CfEnsureDir ==
  /\ cf.pc = "ensureDir"
  /\ IF cf.output = <<>>
     THEN /\ cf' = CfThrown(<<"The \"path\" argument must be of type string">>)
          /\ UNCHANGED fsDirs
     ELSE \/ /\ fsDirs' = fsDirs \cup {Dirname(cf.output)}
             /\ cf' = [cf EXCEPT !.pc = "write"]
          \/ /\ Dirname(cf.output) \notin fsDirs
             /\ cf' = CfThrown(<<"EACCES: permission denied, mkdir">>)
             /\ UNCHANGED fsDirs
  /\ UNCHANGED <<pc, req, ctp, batch, out, fsOut>>
  /\ UNCHANGED genVars

\* await fs.writeFile(outputPath, pdfBuffer); return outputPath
CfWrite ==
  /\ cf.pc = "write"
  /\ \/ /\ fsOut' = [p \in (DOMAIN fsOut) \cup {cf.output} |->
                      IF p = cf.output THEN cf.bytes ELSE fsOut[p]]
        /\ cf' = [cf EXCEPT !.pc = "returned"]
     \/ /\ cf' = CfThrown(<<"ENOSPC: no space left on device, write">>)
        /\ UNCHANGED fsOut
  /\ UNCHANGED <<pc, req, ctp, batch, out, fsDirs>>
  /\ UNCHANGED genVars

\* the await of convertFile settles in the loop: one entry is pushed
BatchPush ==
  /\ pc = "busy"
  /\ req.entry = "batchConvert"
  /\ cf.pc \in {"returned", "thrown"}
  /\ batch' = [batch EXCEPT
                 !.i = @ + 1,
                 !.results = Append(@,
                   IF cf.pc = "returned"
                   THEN [success |-> TRUE, file |-> cf.output, error |-> <<>>]
                   ELSE [success |-> FALSE, file |-> req.files[batch.i].input,
                         error |-> cf.error])]
  /\ cf' = NoCf
  /\ UNCHANGED <<pc, req, ctp, out, fsOut, fsDirs>>
  /\ UNCHANGED genVars

\* the loop is over: return results
BatchReturn ==
  /\ pc = "busy"
  /\ req.entry = "batchConvert"
  /\ cf.pc = "none"
  /\ batch.i > Len(req.files)
  /\ out' = [kind |-> "batch", returned |-> TRUE, results |-> batch.results, error |-> <<>>]
  /\ pc' = "done"
  /\ UNCHANGED <<req, ctp, cf, batch, fsOut, fsDirs>>
  /\ UNCHANGED genVars

(***************************************************************************)
(* escapeHtml (the same method in each converter) and JSON values.         *)
(* A text is a sequence of characters; a placeholder of the shell template *)
(* ("{{title}}", "{{content}}", "{{style}}") counts as one character.      *)
(***************************************************************************)
\* const map = { '&': '&amp;', '<': '&lt;', '>': '&gt;', '"': '&quot;', "'": '&#039;' }
EntityOf(c) ==
  CASE c = "&" -> <<"&", "a", "m", "p", ";">>
    [] c = "<" -> <<"&", "l", "t", ";">>
    [] c = ">" -> <<"&", "g", "t", ";">>
    [] c = "\"" -> <<"&", "q", "u", "o", "t", ";">>
    [] c = "'" -> <<"&", "#", "0", "3", "9", ";">>
    [] OTHER -> <<c>>

\* what several texts give when joined
RECURSIVE Concat(_)
Concat(q) ==
  IF q = <<>> THEN <<>>
  ELSE IF Len(q) = 1 THEN q[1]
  ELSE Concat(SubSeq(q, 1, Len(q) \div 2)) \o Concat(SubSeq(q, Len(q) \div 2 + 1, Len(q)))

\* an escapeHtml that leaves the ampersand alone
escapeHtmlKeepsAmpersand(text) ==
  Concat([i \in 1..Len(text) |-> IF text[i] = "&" THEN <<"&">> ELSE EntityOf(text[i])])

\* text.replace(/[&<>"']/g, m => map[m])
escapeHtml(text) == Concat([i \in 1..Len(text) |-> EntityOf(text[i])])

\* the values JSON.parse gives; the members of an object are <<key, value>>
\* pairs in the order Object.keys lists them
JNull == [t |-> "null"]

JBool(b) == [t |-> "boolean", b |-> b]

JNum(n) == [t |-> "number", n |-> n]

JStr(s) == [t |-> "string", s |-> s]

JArr(items) == [t |-> "array", items |-> items]

JObj(members) == [t |-> "object", members |-> members]

\* Object.keys(data)
Keys(data) == [i \in 1..Len(data.members) |-> data.members[i][1]]

\* data.hasOwnProperty(key), and data[key] for an own key
HasKey(data, key) == \E i \in 1..Len(data.members) : data.members[i][1] = key

ValueAt(data, key) ==
  data.members[CHOOSE i \in 1..Len(data.members) : data.members[i][1] = key][2]

\* the decimal digits of a natural number, as String(n) gives them
DigitChar(d) == <<"0", "1", "2", "3", "4", "5", "6", "7", "8", "9">>[d + 1]

RECURSIVE NumChars(_)
NumChars(n) ==
  IF n < 0 THEN <<"-">> \o NumChars(0 - n)
  ELSE IF n < 10 THEN <<DigitChar(n)>>
  ELSE NumChars(n \div 10) \o <<DigitChar(n % 10)>>

\* JSON.stringify of a string: quoted, with quote, backslash and newline escaped
Quote(s) ==
  LET esc(c) == CASE c = "\"" -> <<"\\", "\"">>
                  [] c = "\\" -> <<"\\", "\\">>
                  [] c = "\n" -> <<"\\", "n">>
                  [] OTHER -> <<c>>
  IN  <<"\"">> \o Concat([i \in 1..Len(s) |-> esc(s[i])]) \o <<"\"">>

Spaces(n) == [i \in 1..n |-> " "]

\* JSON.stringify(data, null, 2), from indentation ind on
RECURSIVE Stringify(_, _)
Stringify(data, ind) ==
  CASE data.t = "null" -> <<"n", "u", "l", "l">>
    [] data.t = "boolean" ->
         IF data.b THEN <<"t", "r", "u", "e">> ELSE <<"f", "a", "l", "s", "e">>
    [] data.t = "number" -> NumChars(data.n)
    [] data.t = "string" -> Quote(data.s)
    [] data.t = "array" ->
         IF data.items = <<>> THEN <<"[", "]">>
         ELSE <<"[">>
              \o Concat([i \in 1..Len(data.items) |->
                   (IF i > 1 THEN <<",">> ELSE <<>>) \o <<"\n">> \o Spaces(ind + 2)
                   \o Stringify(data.items[i], ind + 2)])
              \o <<"\n">> \o Spaces(ind) \o <<"]">>
    [] data.t = "object" ->
         IF data.members = <<>> THEN <<"{", "}">>
         ELSE <<"{">>
              \o Concat([i \in 1..Len(data.members) |->
                   (IF i > 1 THEN <<",">> ELSE <<>>) \o <<"\n">> \o Spaces(ind + 2)
                   \o Quote(data.members[i][1]) \o <<":", " ">>
                   \o Stringify(data.members[i][2], ind + 2)])
              \o <<"\n">> \o Spaces(ind) \o <<"}">>

(***************************************************************************)
(* JSON.parse, giving the value: each Parse* operator gives [i, v], the    *)
(* position after what it read and the value read, with i = 0 when the     *)
(* text is not JSON there.                                                 *)
(***************************************************************************)
NoParse == [i |-> 0, v |-> JNull]

\* the character a backslash escape of a string literal stands for
Unescaped(c) ==
  CASE c = "n" -> "\n"
    [] c = "t" -> "\t"
    [] c = "r" -> "\r"
    [] c = "f" -> "\f"
    [] c = "b" -> "BACKSPACE"
    [] OTHER -> c

RECURSIVE ParseStringRest(_, _, _)
ParseStringRest(s, i, acc) ==
  IF i > Len(s) THEN [i |-> 0, s |-> <<>>]
  ELSE IF s[i] = "\"" THEN [i |-> i + 1, s |-> acc]
  ELSE IF s[i] = "\\"
       THEN (IF i + 1 <= Len(s) /\ s[i + 1] \in {"\"", "\\", "/", "b", "f", "n", "r", "t"}
             THEN ParseStringRest(s, i + 2, Append(acc, Unescaped(s[i + 1])))
             ELSE [i |-> 0, s |-> <<>>])
  ELSE IF s[i] \in {"\n", "\r", "\t"} THEN [i |-> 0, s |-> <<>>]
  ELSE ParseStringRest(s, i + 1, Append(acc, s[i]))

ParseString(s, i) ==
  IF i <= Len(s) /\ s[i] = "\"" THEN ParseStringRest(s, i + 1, <<>>)
  ELSE [i |-> 0, s |-> <<>>]

\* the number a run of decimal digits writes
RECURSIVE DigitsValue(_)
DigitsValue(d) ==
  IF d = <<>> THEN 0
  ELSE 10 * DigitsValue(SubSeq(d, 1, Len(d) - 1))
       + (CHOOSE n \in 0..9 : DigitChar(n) = d[Len(d)])

\* what Then gives for the value of x, which is computed once
With(x, Then(_)) == CHOOSE r \in {Then(p) : p \in {x}} : TRUE

\* a number literal: an integer is read to its value, a literal with a
\* fraction or an exponent is kept as it is written
ParseNumber(s, i) ==
  With(JsonNumber(s, i), LAMBDA e :
    IF e = 0 THEN NoParse
    ELSE With(SubSeq(s, i, e - 1), LAMBDA lit :
           With(IF lit[1] = "-" THEN Tail(lit) ELSE lit, LAMBDA digits :
             IF \A k \in 1..Len(digits) : digits[k] \in Digit
             THEN [i |-> e, v |-> JNum(IF lit[1] = "-" THEN 0 - DigitsValue(digits)
                                       ELSE DigitsValue(digits))]
             ELSE [i |-> e, v |-> [t |-> "number", lit |-> lit]])))

\* obj[key] = value while parsing: a key met again keeps its place and takes
\* the later value
PutMember(members, key, value) ==
  IF \E k \in 1..Len(members) : members[k][1] = key
  THEN [k \in 1..Len(members) |->
          IF members[k][1] = key THEN <<key, value>> ELSE members[k]]
  ELSE Append(members, <<key, value>>)

RECURSIVE ParseValue(_, _)
RECURSIVE ParseElements(_, _, _)
RECURSIVE ParseMembers(_, _, _)

ParseElements(s, i, acc) ==
  With(ParseValue(s, i), LAMBDA p :
    With(IF p.i = 0 THEN 0 ELSE SkipWs(s, p.i), LAMBDA w :
      IF w = 0 \/ w > Len(s) THEN NoParse
      ELSE IF s[w] = "]" THEN [i |-> w + 1, v |-> JArr(Append(acc, p.v))]
      ELSE IF s[w] = "," THEN ParseElements(s, SkipWs(s, w + 1), Append(acc, p.v))
      ELSE NoParse))

ParseMembers(s, i, acc) ==
  With(ParseString(s, i), LAMBDA k :
    With(IF k.i = 0 THEN 0 ELSE SkipWs(s, k.i), LAMBDA c :
      With(IF c = 0 \/ c > Len(s) THEN NoParse
           ELSE IF s[c] = ":" THEN ParseValue(s, SkipWs(s, c + 1)) ELSE NoParse, LAMBDA p :
        With(IF p.i = 0 THEN 0 ELSE SkipWs(s, p.i), LAMBDA w :
          IF w = 0 \/ w > Len(s) THEN NoParse
          ELSE IF s[w] = "}" THEN [i |-> w + 1, v |-> JObj(PutMember(acc, k.s, p.v))]
          ELSE IF s[w] = "," THEN ParseMembers(s, SkipWs(s, w + 1), PutMember(acc, k.s, p.v))
          ELSE NoParse))))

ParseValue(s, i) ==
  IF i > Len(s) THEN NoParse
  ELSE IF s[i] = "{"
       THEN LET j == SkipWs(s, i + 1)
            IN  IF j <= Len(s) /\ s[j] = "}" THEN [i |-> j + 1, v |-> JObj(<<>>)]
                ELSE ParseMembers(s, j, <<>>)
  ELSE IF s[i] = "["
       THEN LET j == SkipWs(s, i + 1)
            IN  IF j <= Len(s) /\ s[j] = "]" THEN [i |-> j + 1, v |-> JArr(<<>>)]
                ELSE ParseElements(s, j, <<>>)
  ELSE IF s[i] = "\""
       THEN With(ParseString(s, i), LAMBDA q :
              IF q.i = 0 THEN NoParse ELSE [i |-> q.i, v |-> JStr(q.s)])
  ELSE IF MatchAt(s, i, <<"t", "r", "u", "e">>) THEN [i |-> i + 4, v |-> JBool(TRUE)]
  ELSE IF MatchAt(s, i, <<"f", "a", "l", "s", "e">>) THEN [i |-> i + 5, v |-> JBool(FALSE)]
  ELSE IF MatchAt(s, i, <<"n", "u", "l", "l">>) THEN [i |-> i + 4, v |-> JNull]
  ELSE ParseNumber(s, i)

\* JSON.parse(s): [ok, v]
JsonParse(s) ==
  With(ParseValue(s, SkipWs(s, 1)), LAMBDA p :
    IF p.i /= 0 /\ SkipWs(s, p.i) = Len(s) + 1
    THEN [ok |-> TRUE, v |-> p.v]
    ELSE [ok |-> FALSE, v |-> JNull])

(***************************************************************************)
(* HTML the converters build: a sequence of atoms, each either a piece of  *)
(* markup the converter writes itself (white space between tags left out)  *)
(* or one character computed from the data.                                *)
(***************************************************************************)
M(markup) == <<[k |-> "m", v |-> markup]>>

T(text) == [i \in 1..Len(text) |-> [k |-> "c", v |-> text[i]]]

\* the characters computed from the data that an HTML holds, in order
TextOf(html) ==
  LET chars == SelectSeq(html, LAMBDA atom : atom.k = "c")
  IN  [i \in 1..Len(chars) |-> chars[i].v]

(***************************************************************************)
(* JsonConverter (converters/jsonConverter.js)                             *)
(***************************************************************************)
RECURSIVE jsonToStructured(_, _)
jsonToStructured(data, level) ==
  CASE data.t = "null" -> M("<span class=\"json-null\">null</span>")
    [] data.t = "string" ->
         M("<span class=\"json-string\">\"") \o T(escapeHtml(data.s)) \o M("\"</span>")
    [] data.t = "number" ->
         M("<span class=\"json-number\">") \o T(NumChars(data.n)) \o M("</span>")
    [] data.t = "boolean" ->
         M("<span class=\"json-boolean\">")
         \o T(IF data.b THEN <<"t", "r", "u", "e">> ELSE <<"f", "a", "l", "s", "e">>)
         \o M("</span>")
    [] data.t = "array" ->
         IF data.items = <<>> THEN M("<span class=\"json-empty\">[]</span>")
         ELSE M("<div class=\"json-array\" style=\"margin-left: ") \o T(NumChars(level * 20))
              \o M("px;\"><div class=\"json-bracket\">[</div>")
              \o Concat([i \in 1..Len(data.items) |->
                   M("<div class=\"json-array-item\"><span class=\"json-index\">[")
                   \o T(NumChars(i - 1)) \o M("]</span>")
                   \o jsonToStructured(data.items[i], level + 1)
                   \o M("</div>")])
              \o M("<div class=\"json-bracket\">]</div></div>")
    [] data.t = "object" ->
         IF data.members = <<>> THEN M("<span class=\"json-empty\">{}</span>")
         ELSE M("<div class=\"json-object\" style=\"margin-left: ") \o T(NumChars(level * 20))
              \o M("px;\"><div class=\"json-bracket\">{</div>")
              \o Concat([i \in 1..Len(data.members) |->
                   M("<div class=\"json-object-item\"><span class=\"json-key\">\"")
                   \o T(escapeHtml(data.members[i][1])) \o M("\":</span><div class=\"json-value\">")
                   \o jsonToStructured(data.members[i][2], level + 1)
                   \o M("</div></div>")])
              \o M("<div class=\"json-bracket\">}</div></div>")

\* a formatTableCell that renders a nested value as structured mode does
formatTableCellStructured(value) == jsonToStructured(value, 0)

\* typeof value === 'object' && value !== null: pretty-printed JSON in a pre,
\* written as it is; any other value as structured mode renders it
formatTableCell(value) ==
  IF value.t \in {"array", "object"}
  THEN M("<pre class=\"json-nested\">") \o T(Stringify(value, 0)) \o M("</pre>")
  ELSE jsonToStructured(value, 0)

\* Array.from(allKeys): the keys of the items, each once, in the order met
RECURSIVE AllKeys(_, _)
AllKeys(array, acc) ==
  IF array = <<>> THEN acc
  ELSE LET ks == Keys(Head(array))
           new == SelectSeq(ks, LAMBDA k : \A j \in 1..Len(acc) : acc[j] /= k)
       IN  AllKeys(Tail(array), acc \o new)

\* array.every(item => typeof item === 'object' && item !== null && !Array.isArray(item))
AllPlainObjects(array) == \A i \in 1..Len(array) : array[i].t = "object"

\* item.hasOwnProperty(key) is a call of the item's own member of that name
\* when it has one, and no JSON value can be called
arrayToTableThrows(array) ==
  /\ array /= <<>>
  /\ AllPlainObjects(array)
  /\ \E i \in 1..Len(array) : HasKey(array[i], <<"hasOwnProperty">>)

arrayToTable(array) ==
  IF array = <<>> THEN M("<p class=\"json-empty\">Empty array</p>")
  ELSE IF AllPlainObjects(array)
  THEN LET keys == AllKeys(array, <<>>)
       IN  M("<table class=\"json-table\"><thead><tr>")
           \o Concat([c \in 1..Len(keys) |->
                M("<th>") \o T(escapeHtml(keys[c])) \o M("</th>")])
           \o M("</tr></thead><tbody>")
           \o Concat([r \in 1..Len(array) |->
                M("<tr>")
                \o Concat([c \in 1..Len(keys) |->
                     M("<td>")
                     \o (IF HasKey(array[r], keys[c])
                         THEN formatTableCell(ValueAt(array[r], keys[c])) ELSE <<>>)
                     \o M("</td>")])
                \o M("</tr>")])
           \o M("</tbody></table>")
  ELSE M("<table class=\"json-table\"><thead><tr><th>Index</th><th>Value</th></tr></thead><tbody>")
       \o Concat([r \in 1..Len(array) |->
            M("<tr><td class=\"json-index\">") \o T(NumChars(r - 1)) \o M("</td><td>")
            \o formatTableCell(array[r]) \o M("</td></tr>")])
       \o M("</tbody></table>")

objectToTable(obj) ==
  M("<table class=\"json-table\"><thead><tr><th>Key</th><th>Value</th></tr></thead><tbody>")
  \o Concat([r \in 1..Len(obj.members) |->
       M("<tr><td class=\"json-key\">") \o T(escapeHtml(obj.members[r][1])) \o M("</td><td>")
       \o formatTableCell(obj.members[r][2]) \o M("</td></tr>")])
  \o M("</tbody></table>")

jsonToTable(data) ==
  IF data.t = "array" THEN arrayToTable(data.items)
  ELSE IF data.t = "object" THEN objectToTable(data)
  ELSE M("<div class=\"json-simple-value\">") \o jsonToStructured(data, 0) \o M("</div>")

jsonToRaw(data) ==
  M("<pre class=\"json-raw\"><code>") \o T(escapeHtml(Stringify(data, 0))) \o M("</code></pre>")

\* a jsonToHtml whose structured mode leaves out the items and the members
\* of the root that are an empty array or an empty object
jsonToHtmlOmitsEmpty(data, options) ==
  LET kept(v) == ~(v.t = "array" /\ v.items = <<>>) /\ ~(v.t = "object" /\ v.members = <<>>)
      pruned == IF data.t = "array"
                THEN JArr(SelectSeq(data.items, kept))
                ELSE IF data.t = "object"
                THEN JObj(SelectSeq(data.members, LAMBDA m : kept(m[2])))
                ELSE data
  IN  CASE jsonMode(options) = "table" -> jsonToTable(data)
        [] jsonMode(options) = "raw" -> jsonToRaw(data)
        [] OTHER -> jsonToStructured(pruned, 0)

\* switch (format): the algorithm jsonMode names runs
jsonToHtml(data, options) ==
  CASE jsonMode(options) = "table" -> jsonToTable(data)
    [] jsonMode(options) = "raw" -> jsonToRaw(data)
    [] OTHER -> jsonToStructured(data, 0)

(***************************************************************************)
(* The shell template and String.prototype.replace (utils/helpers.js and   *)
(* the last statement of each converter's convert).                        *)
(***************************************************************************)
\* getDefaultTemplate(), which loadTemplate returns when templates/default.html
\* cannot be read
getDefaultTemplate ==
  M("<!DOCTYPE html><html lang=\"en\"><head><meta charset=\"UTF-8\"><meta name=\"viewport\" content=\"width=device-width, initial-scale=1.0\"><title>")
  \o M("{{title}}")
  \o M("</title><style>")
  \o M("{{style}}")
  \o M("</style></head><body><div class=\"content\"><h1>")
  \o M("{{title}}")
  \o M("</h1><div class=\"document-content\">")
  \o M("{{content}}")
  \o M("</div></div></body></html>")

\* a loadTemplate that falls back only when the file does not exist
loadTemplateOnlyIfMissing(read) ==
  IF read.ok THEN read.data
  ELSE IF read.code = "ENOENT" THEN getDefaultTemplate
  ELSE <<[k |-> "thrown", v |-> read.code]>>

\* loadTemplate(templateName), read being what fs.readFile answers: the
\* text of the file, or the default template after any error
loadTemplate(read) == IF read.ok THEN read.data ELSE getDefaultTemplate

\* this.getDefaultStyles(): a style sheet, which holds no $ and no placeholder
getDefaultStyles == M("body { font-family: ... }")

\* a replacement string as replace reads it at one match: $$ is a $, $& the
\* matched text, $ with a backtick the text before the match and $' the text
\* after it; a $ before anything else, the markup of a converter included
\* (which begins with a quote or a <), stays.  A pattern begins at a $ that
\* is followed by one of the four characters and is not the second
\* character of the pattern before it.
Expand(replacement, before, matched, after) ==
  LET n == Len(replacement)
      cond(i) == /\ i >= 1
                 /\ i < n
                 /\ replacement[i].v = "$"
                 /\ replacement[i + 1].k = "c"
                 /\ replacement[i + 1].v \in {"$", "&", Backtick, "'"}
      chain(i) == CHOOSE a \in 1..i :
                    /\ \A j \in a..i : cond(j)
                    /\ \A c \in 1..a - 1 : \E j \in c..i : ~cond(j)
      starts(i) == cond(i) /\ (i - chain(i)) % 2 = 0
  IN  Concat([i \in 1..n |->
        IF starts(i)
        THEN (CASE replacement[i + 1].v = "$" -> <<replacement[i]>>
                [] replacement[i + 1].v = "&" -> <<matched>>
                [] replacement[i + 1].v = Backtick -> before
                [] replacement[i + 1].v = "'" -> after)
        ELSE IF starts(i - 1) THEN <<>>
        ELSE <<replacement[i]>>])

\* subject.replace(/\{\{name\}\}/g, replacement)
replace(subject, placeholder, replacement) ==
  Concat([i \in 1..Len(subject) |->
            IF subject[i].v = placeholder
            THEN Expand(replacement, SubSeq(subject, 1, i - 1), subject[i],
                        SubSeq(subject, i + 1, Len(subject)))
            ELSE <<subject[i]>>])

\* template.replace(title).replace(content).replace(style)
Bind(template, title, content) ==
  replace(replace(replace(template, "{{title}}", T(escapeHtml(title))),
                  "{{content}}", content),
          "{{style}}", getDefaultStyles)

(***************************************************************************)
(* TextConverter (converters/textConverter.js)                             *)
(***************************************************************************)
\* where a match of /\n\s*\n/ that begins at i ends, 0 when there is none:
\* the last newline of the white space that follows position i
SeparatorEnd(s, i) ==
  LET run == {j \in i + 1..Len(s) : \A k \in i + 1..j : s[k] \in Space}
      ends == {j \in run : s[j] = "\n"}
  IN  IF i <= Len(s) /\ s[i] = "\n" /\ ends /= {}
      THEN CHOOSE j \in ends : \A k \in ends : k <= j
      ELSE 0

\* escapedText.split(/\n\s*\n/), from position i on, cur being the piece so far
RECURSIVE Split(_, _, _)
Split(s, i, cur) ==
  IF i > Len(s) THEN <<cur>>
  ELSE IF SeparatorEnd(s, i) /= 0
       THEN <<cur>> \o Split(s, SeparatorEnd(s, i) + 1, <<>>)
       ELSE Split(s, i + 1, Append(cur, s[i]))

\* `<p>${p.replace(/\n/g, '<br>')}</p>`
Paragraph(p) ==
  M("<p>")
  \o Concat([i \in 1..Len(p) |-> IF p[i] = "\n" THEN M("<br>") ELSE T(<<p[i]>>)])
  \o M("</p>")

\* escapeHtml, split, filter(p => p.trim()), map, join('\n')
Paragraphs(textContent) ==
  LET kept == SelectSeq(Split(escapeHtml(textContent), 1, <<>>), LAMBDA p : trim(p) /= <<>>)
  IN  Concat([i \in 1..Len(kept) |->
               (IF i > 1 THEN M("\n") ELSE <<>>) \o Paragraph(kept[i])])

(***************************************************************************)
(* MarkdownConverter (converters/markdownConverter.js)                     *)
(***************************************************************************)
\* s.split('\n')
SplitLines(s) ==
  LET breaks == {i \in 1..Len(s) : s[i] = "\n"}
      \* the k-th break, the start of the text for k = 0 and its end after the last
      at(k) == IF k = 0 THEN 0
               ELSE IF k > Cardinality(breaks) THEN Len(s) + 1
               ELSE CHOOSE i \in breaks : Cardinality({j \in breaks : j < i}) = k - 1
  IN  [k \in 1..Cardinality(breaks) + 1 |-> SubSeq(s, at(k - 1) + 1, at(k) - 1)]

\* value.replace(/^["']|["']$/g, ''): a quote at the start goes, and a quote
\* at the end that is not that same character
StripQuotes(v) ==
  LET first == Len(v) >= 1 /\ v[1] \in {"\"", "'"}
      last == Len(v) >= 2 /\ v[Len(v)] \in {"\"", "'"}
  IN  SubSeq(v, IF first THEN 2 ELSE 1, IF last THEN Len(v) - 1 ELSE Len(v))

\* the forEach over the lines of the block: a line with a colon after its
\* first character sets metadata[key] = value
RECURSIVE ParseMetadata(_, _)
ParseMetadata(lines, metadata) ==
  IF lines = <<>> THEN metadata
  ELSE LET line == Head(lines)
           colons == {i \in 1..Len(line) : line[i] = ":"}
           colonIndex == IF colons = {} THEN -1
                         ELSE (CHOOSE i \in colons : \A j \in colons : i <= j) - 1
       IN  IF colonIndex > 0
           THEN ParseMetadata(Tail(lines),
                  PutMember(metadata,
                            trim(SubSeq(line, 1, colonIndex)),
                            StripQuotes(trim(SubSeq(line, colonIndex + 2, Len(line))))))
           ELSE ParseMetadata(Tail(lines), metadata)

\* content.match(/^---\s*\n([\s\S]*?)\n---\s*\n([\s\S]*)$/): the positions of
\* the newline that ends the opening delimiter (the greedy \s* takes the
\* last one that lets the rest match), of the newline before the closing
\* delimiter (the lazy group takes the first one) and of the newline that
\* ends the closing delimiter (greedy again); none when there is no match
FrontmatterMatch(content) ==
  LET Ends(from) == {p \in from..Len(content) :
                       /\ content[p] = "\n"
                       /\ \A k \in from..p - 1 : content[k] \in Space}
      Closings == {q \in 1..Len(content) :
                     MatchAt(content, q, <<"\n", "-", "-", "-">>) /\ Ends(q + 4) /= {}}
      Openings == {p \in Ends(4) : \E q \in Closings : q > p}
  IN  IF MatchAt(content, 1, <<"-", "-", "-">>) /\ Openings /= {}
      THEN LET p == CHOOSE x \in Openings : \A y \in Openings : y <= x
               q == CHOOSE x \in Closings : x > p /\ \A y \in Closings : y > p => x <= y
               r == CHOOSE x \in Ends(q + 4) : \A y \in Ends(q + 4) : y <= x
           IN  [matched |-> TRUE, p |-> p, q |-> q, r |-> r]
      ELSE [matched |-> FALSE]

\* extractFrontmatter(content): metadata is the sequence of its <<key, value>>
\* pairs
extractFrontmatter(content) ==
  LET m == FrontmatterMatch(content)
  IN  IF ~m.matched THEN [content |-> content, metadata |-> <<>>]
      ELSE [content |-> SubSeq(content, m.r + 1, Len(content)),
            metadata |-> ParseMetadata(SplitLines(SubSeq(content, m.p + 1, m.q - 1)), <<>>)]

\* content.match(/^#+\s+(.+)$/m): the group of the first match, <<>> for null.
\* A match begins at the start of a line with a run of #; the greedy \s+
\* takes the white space after it, newlines included, and gives back what
\* it must for the group to begin on a character that is no line terminator;
\* the group runs to the end of its line.
extractTitleFromContent(content) ==
  LET NL == {"\n", "\r"}
      GroupStart(i) ==
        LET j == i + RunLen(content, i, {"#"})
            w == RunLen(content, j, Space)
            starts == {x \in j + 1..j + w : x <= Len(content) /\ content[x] \notin NL}
        IN  IF j > i /\ starts /= {}
            THEN CHOOSE x \in starts : \A y \in starts : y <= x
            ELSE 0
      LineStarts == {i \in 1..Len(content) :
                       (i = 1 \/ content[i - 1] \in NL) /\ GroupStart(i) /= 0}
  IN  IF LineStarts = {} THEN <<>>
      ELSE LET i == CHOOSE x \in LineStarts : \A y \in LineStarts : x <= y
               x == GroupStart(i)
               e == CHOOSE y \in x..Len(content) :
                      /\ \A k \in x..y : content[k] \notin NL
                      /\ y = Len(content) \/ content[y + 1] \in NL
           IN  SubSeq(content, x, e)

\* a marked whose registered renderers pile up: each marked.use adds a
\* renderer that works on what the earlier ones gave
markedStacksRenderers(content, uses) ==
  <<[k |-> "lib", v |-> "marked", of |-> content, renderer |-> uses]>>

\* marked(content): what the library gives for the content with the
\* renderer in force, which is the custom one of configureMarked once
\* marked.use has registered it (each of its functions returns a string,
\* so no earlier renderer is asked)
marked(content, uses) ==
  <<[k |-> "lib", v |-> "marked", of |-> content,
     renderer |-> IF uses > 0 THEN "custom" ELSE "default"]>>

\* options.title || metadata.title || this.extractTitleFromContent(content) || ''
markdownTitle(options, extracted) ==
  IF "title" \in DOMAIN options /\ options["title"] /= <<>> THEN options["title"]
  ELSE IF HasKey(JObj(extracted.metadata), <<"title">>)
          /\ ValueAt(JObj(extracted.metadata), <<"title">>) /= <<>>
  THEN ValueAt(JObj(extracted.metadata), <<"title">>)
  ELSE extractTitleFromContent(extracted.content)

(***************************************************************************)
(* HtmlConverter (converters/htmlConverter.js).  In an HTML text the words *)
(* the converter looks for (<!DOCTYPE html>, <html, <head>, </head> and    *)
(* their upper-case forms) each count as one character.                    *)
(***************************************************************************)
\* htmlContent.toLowerCase(), on one character
toLowerCase(c) ==
  CASE c = "<!DOCTYPE html>" -> "<!doctype html>"
    [] c = "<HTML" -> "<html"
    [] c = "<HEAD>" -> "<head>"
    [] c = "</HEAD>" -> "</head>"
    [] c = "</HTML>" -> "</html>"
    [] OTHER -> c

\* the test of convert: the lower-cased content includes '<!doctype' or '<html'
IsCompleteDocument(htmlContent) ==
  \E i \in 1..Len(htmlContent) : toLowerCase(htmlContent[i]) \in {"<!doctype html>", "<html"}

\* the style block addPdfStyles inserts
pdfStyles == M("<style>getPdfOptimizedStyles()</style>")

\* addPdfStyles(fullHtmlContent): replace('</head>', ...) and
\* replace('<html>', ...) act on the first occurrence, and the style sheet
\* holds no $
addPdfStyles(fullHtmlContent) ==
  LET n == Len(fullHtmlContent)
      heads == {i \in 1..n : fullHtmlContent[i] = "</head>"}
      opens == {i \in 1..n - 1 : fullHtmlContent[i] = "<html" /\ fullHtmlContent[i + 1] = ">"}
      headSection == M("<head><title>PDF Document</title>") \o pdfStyles \o M("</head>")
  IN  IF heads /= {}
      THEN LET i == CHOOSE x \in heads : \A y \in heads : x <= y
           IN  T(SubSeq(fullHtmlContent, 1, i - 1)) \o pdfStyles
               \o T(SubSeq(fullHtmlContent, i, n))
      ELSE IF opens /= {}
      THEN LET i == CHOOSE x \in opens : \A y \in opens : x <= y
           IN  T(SubSeq(fullHtmlContent, 1, i + 1)) \o headSection
               \o T(SubSeq(fullHtmlContent, i + 2, n))
      ELSE M("<!DOCTYPE html><html>") \o headSection \o M("<body>")
           \o T(fullHtmlContent) \o M("</body></html>")

(***************************************************************************)
(* The inputs of the converters.                                           *)
(***************************************************************************)
\* items of a JSON array
MaxItems == 2

\* characters of a plain text
MaxText == 4

SeqsUpTo(S, n) == UNION {[1..k -> S] : k \in 0..n}

\* the JSON values the converter is given.  The strings hold each character
\* escapeHtml replaces, what JSON.stringify escapes, what replace reads in
\* a replacement, and a placeholder; no key is written like an array index,
\* which Object.keys would list first; the items of the arrays are rows with
\* the same, with other and with nested values, and items that are no plain
\* object.
JsonValues ==
  LET JStrings ==
        {<<>>, <<"a">>, <<"<">>, <<">">>, <<"&">>, <<"\"">>, <<"'">>, <<"\\">>, <<"\n">>,
         <<"{{style}}">>, <<"$", "&">>, <<"$", "$">>, <<"<", "b", ">">>, <<"&", "l", "t", ";">>}
      KeyNames == {<<"a">>, <<"b">>, <<"<">>, <<"title">>, <<"hasOwnProperty">>}
      Scalars == {JNull, JBool(TRUE), JBool(FALSE), JNum(0), JNum(7)} \cup {JStr(s) : s \in JStrings}
      Leaves ==
        {JNull, JBool(FALSE), JNum(7), JStr(<<"a">>), JStr(<<"<">>), JStr(<<"$", "&">>),
         JStr(<<"&", "l", "t", ";">>)}
      Nested ==
        {JArr(<<>>), JObj(<<>>), JArr(<<JStr(<<"<">>)>>), JObj(<<<<<<"b">>, JStr(<<"<">>)>>>>),
         JArr(<<JObj(<<<<<<"a">>, JNum(7)>>>>), JArr(<<JNull>>)>>),
         JObj(<<<<<<"<">>, JArr(<<JStr(<<"'">>), JObj(<<>>)>>)>>>>)}
      OneKeyObjects == {JObj(<<<<k, v>>>>) : k \in KeyNames, v \in Leaves \cup Nested}
      TwoKeyObjects ==
        {JObj(<<<<k[1], v[1]>>, <<k[2], v[2]>>>>) :
           k \in {p \in {<<"a">>, <<"b">>, <<"title">>} \X {<<"a">>, <<"b">>, <<"title">>} : p[1] /= p[2]},
           v \in {JNum(7), JStr(<<"<">>)} \X {JNum(7), JArr(<<JStr(<<"&">>)>>)}}
      ArrayItems ==
        {JObj(<<>>),
         JObj(<<<<<<"a">>, JNum(7)>>>>),
         JObj(<<<<<<"b">>, JStr(<<"<">>)>>>>),
         JObj(<<<<<<"a">>, JNum(7)>>, <<<<"b">>, JStr(<<"<">>)>>>>),
         JObj(<<<<<<"b">>, JNull>>, <<<<"a">>, JStr(<<"a">>)>>>>),
         JObj(<<<<<<"<">>, JObj(<<<<<<"b">>, JStr(<<"<">>)>>>>)>>>>),
         JObj(<<<<<<"hasOwnProperty">>, JNum(7)>>>>),
         JNum(7), JStr(<<"<">>), JNull, JArr(<<JStr(<<"'">>)>>)}
      Arrays == {JArr(items) : items \in SeqsUpTo(ArrayItems, MaxItems)}
  IN  Scalars \cup OneKeyObjects \cup TwoKeyObjects \cup Arrays \cup {JObj(<<>>)}

\* the content: a string, which is parsed, or a value parsed already; among
\* the strings are JSON texts JSON.stringify does not write (no white
\* space, white space around, a key twice) and texts that are not JSON
JsonContents ==
  LET OtherJsonTexts ==
        {<<"{", "\"", "a", "\"", ":", "7", "}">>,
         <<" ", "[", "7", ",", " ", "n", "u", "l", "l", "]", "\n">>,
         <<"{", "\"", "a", "\"", ":", "7", ",", "\"", "b", "\"", ":", "0", ",", "\"", "a", "\"", ":", "\"", "<", "\"", "}">>,
         <<"{", "a", ":", "7", "}">>,
         <<"[", "7", ",", "]">>,
         <<>>,
         <<"a">>}
  IN  {[isText |-> TRUE, text |-> Stringify(v, 0)] : v \in JsonValues}
      \cup {[isText |-> TRUE, text |-> t] : t \in OtherJsonTexts}
      \cup {[isText |-> FALSE, value |-> v] : v \in {w \in JsonValues : w.t /= "string"}}

JsonOptionSets ==
  {<<>>, [format |-> "structured"], [format |-> "table"], [format |-> "raw"],
   [format |-> "yaml"], [title |-> <<"T">>], [title |-> <<"<", "$", "&">>],
   [format |-> "table", title |-> <<"T">>], [title |-> <<"{{content}}">>]}

\* the plain texts: each kind of character escapeHtml, split and replace
\* treat differently
TextContents == SeqsUpTo({"a", "<", "&", "'", "\n", " ", "$", Backtick}, MaxText)

TextOptionSets == {<<>>, [title |-> <<"T">>]}

\* lines of a Markdown text
MaxLines == 4

\* lines.join('\n')
JoinLines(lines) ==
  Concat([i \in 1..Len(lines) |-> (IF i > 1 THEN <<"\n">> ELSE <<>>) \o lines[i]])

\* the Markdown texts: up to MaxLines lines, each a delimiter, a key with a
\* value (plain, quoted, holding a second colon), a heading, a lone #, a
\* line of text or an empty line
MarkdownContents ==
  {JoinLines(lines) :
     lines \in SeqsUpTo({<<"-", "-", "-">>,
                         <<"title", ":", " ", "F">>,
                         <<"b", ":", "\"", "G", "'">>,
                         <<"title", ":", "x", ":", "y">>,
                         <<"#", " ", "H">>,
                         <<"#">>,
                         <<"t">>,
                         <<>>}, MaxLines)}

\* the HTML texts: with or without a doctype, an html tag (plain, with an
\* attribute, in upper case) and a head (in lower or upper case), around a
\* body
HtmlContents ==
  {doctype \o open \o head \o body \o close :
     doctype \in {<<>>, <<"<!DOCTYPE html>">>, <<"<!doctype html>">>},
     open \in {<<>>, <<"<html", ">">>, <<"<html", " lang=\"en\"", ">">>, <<"<HTML", ">">>},
     head \in {<<>>, <<"<head>", "</head>">>, <<"<HEAD>", "</HEAD>">>},
     body \in {<<"x">>, <<"<body>", "x", "$", "&", "</body>">>, <<"<p>", "{{style}}", "</p>">>},
     close \in {<<>>, <<"</html>">>}}

MarkdownOptionSets == {<<>>, [title |-> <<"T">>]}


(***************************************************************************)
(* One call of a converter's convert(content, options): the frame cv.      *)
(***************************************************************************)
NoCv ==
  [pc |-> "idle", converter |-> "", content |-> <<>>, options |-> <<>>,
   data |-> JNull, title |-> JNull, template |-> <<>>,
   \* for the record: the rendering algorithms of jsonToHtml that ran
   ran |-> <<>>,
   body |-> <<>>, html |-> <<>>, error |-> <<>>,
   \* the process: how many times configureMarked has run marked.use, and
   \* the conversions that ended before this one
   uses |-> 0, earlier |-> <<>>]

CvThrown(message) == [cv EXCEPT !.pc = "thrown", !.error = message]

\* whether a JSON value is truthy
Truthy(v) ==
  CASE v.t = "null" -> FALSE
    [] v.t = "boolean" -> v.b
    [] v.t = "number" -> v.n /= 0
    [] v.t = "string" -> v.s /= <<>>
    [] OTHER -> TRUE

\* options.title, a text; '' when there is none
TitleOption(options) == IF "title" \in DOMAIN options THEN options["title"] ELSE <<>>

\* options.title || data.title || '', for data that is not null
jsonTitle(data, options) ==
  IF TitleOption(options) /= <<>> THEN JStr(TitleOption(options))
  ELSE IF data.t = "object" /\ HasKey(data, <<"title">>) /\ Truthy(ValueAt(data, <<"title">>))
       THEN ValueAt(data, <<"title">>)
       ELSE JStr(<<>>)

\* JsonConverter.convert is invoked with a JSON text or a value parsed already
JcStart ==
  /\ cv.pc = "idle"
  /\ \E content \in JsonContents, options \in JsonOptionSets :
       cv' = [NoCv EXCEPT !.pc = "parse", !.converter = "json",
                          !.content = content, !.options = options]
  /\ UNCHANGED <<genVars, engVars, fn>>

\* JSON.parse when the content is a string, then the title, up to the await
JcParse ==
  /\ cv.pc = "parse"
  /\ cv.converter = "json"
  /\ LET parsed == IF cv.content.isText THEN JsonParse(cv.content.text)
                   ELSE [ok |-> TRUE, v |-> cv.content.value]
     IN  cv' = IF ~parsed.ok
               THEN CvThrown(<<"Invalid JSON: ", "Unexpected token">>)
               ELSE IF TitleOption(cv.options) = <<>> /\ parsed.v.t = "null"
               THEN CvThrown(<<"Cannot read properties of null (reading 'title')">>)
               ELSE [cv EXCEPT !.pc = "template", !.data = parsed.v,
                               !.title = jsonTitle(parsed.v, cv.options)]
  /\ UNCHANGED <<genVars, engVars, fn>>

\* await loadTemplate('default.html'): the repository has no templates
\* directory, so readFile fails and the default template is returned
CvLoadTemplate ==
  /\ cv.pc = "template"
  /\ cv' = [cv EXCEPT !.pc = "bind",
                      !.template = loadTemplate([ok |-> FALSE, code |-> "ENOENT"])]
  /\ UNCHANGED <<genVars, engVars, fn>>

\* jsonToHtml, then escapeHtml(title) and the three replacements
JcBind ==
  /\ cv.pc = "bind"
  /\ cv.converter = "json"
  /\ cv' = IF jsonMode(cv.options) = "table" /\ cv.data.t = "array"
              /\ arrayToTableThrows(cv.data.items)
           THEN [CvThrown(<<"item.hasOwnProperty is not a function">>)
                   EXCEPT !.ran = <<jsonMode(cv.options)>>]
           ELSE IF cv.title.t /= "string"
           THEN [CvThrown(<<"text.replace is not a function">>)
                   EXCEPT !.ran = <<jsonMode(cv.options)>>,
                          !.body = jsonToHtml(cv.data, cv.options)]
           ELSE [cv EXCEPT !.pc = "returned",
                           !.ran = <<jsonMode(cv.options)>>,
                           !.body = jsonToHtml(cv.data, cv.options),
                           !.html = Bind(cv.template, cv.title.s,
                                         jsonToHtml(cv.data, cv.options))]
  /\ UNCHANGED <<genVars, engVars, fn>>

\* TextConverter.convert is invoked
TcStart ==
  /\ cv.pc = "idle"
  /\ \E content \in TextContents, options \in TextOptionSets :
       cv' = [NoCv EXCEPT !.pc = "paragraphs", !.converter = "text",
                          !.content = content, !.options = options]
  /\ UNCHANGED <<genVars, engVars, fn>>

\* the paragraphs and the title, up to the await
TcParagraphs ==
  /\ cv.pc = "paragraphs"
  /\ cv' = [cv EXCEPT !.pc = "template", !.body = Paragraphs(cv.content),
                      !.title = JStr(TitleOption(cv.options))]
  /\ UNCHANGED <<genVars, engVars, fn>>

\* the three replacements
TcBind ==
  /\ cv.pc = "bind"
  /\ cv.converter = "text"
  /\ cv' = [cv EXCEPT !.pc = "returned", !.html = Bind(cv.template, cv.title.s, cv.body)]
  /\ UNCHANGED <<genVars, engVars, fn>>

\* new MarkdownConverter() has run configureMarked, and convert is invoked
McStart ==
  /\ cv.pc = "idle"
  /\ \E content \in MarkdownContents, options \in MarkdownOptionSets :
       cv' = [NoCv EXCEPT !.pc = "extract", !.converter = "markdown",
                          !.content = content, !.options = options, !.uses = 1]
  /\ UNCHANGED <<genVars, engVars, fn>>

\* extractFrontmatter, marked and the title, up to the await
McExtract ==
  /\ cv.pc = "extract"
  /\ cv.converter = "markdown"
  /\ LET extracted == extractFrontmatter(cv.content)
     IN  cv' = [cv EXCEPT !.pc = "template", !.data = extracted,
                          !.body = marked(extracted.content, cv.uses),
                          !.title = JStr(markdownTitle(cv.options, extracted))]
  /\ UNCHANGED <<genVars, engVars, fn>>

\* the three replacements
McBind ==
  /\ cv.pc = "bind"
  /\ cv.converter = "markdown"
  /\ cv' = [cv EXCEPT !.pc = "returned", !.html = Bind(cv.template, cv.title.s, cv.body)]
  /\ UNCHANGED <<genVars, engVars, fn>>

\* HtmlConverter.convert is invoked
HcStart ==
  /\ cv.pc = "idle"
  /\ \E content \in HtmlContents, options \in TextOptionSets :
       cv' = [NoCv EXCEPT !.pc = "check", !.converter = "html",
                          !.content = content, !.options = options]
  /\ UNCHANGED <<genVars, engVars, fn>>

\* a complete document is returned with the print styles added; for a
\* fragment the title is taken, up to the await
HcConvert ==
  /\ cv.pc = "check"
  /\ cv.converter = "html"
  /\ cv' = IF IsCompleteDocument(cv.content)
           THEN [cv EXCEPT !.pc = "returned", !.html = addPdfStyles(cv.content)]
           ELSE [cv EXCEPT !.pc = "template", !.body = T(cv.content),
                           !.title = JStr(TitleOption(cv.options))]
  /\ UNCHANGED <<genVars, engVars, fn>>

\* the three replacements
HcBind ==
  /\ cv.pc = "bind"
  /\ cv.converter = "html"
  /\ cv' = [cv EXCEPT !.pc = "returned", !.html = Bind(cv.template, cv.title.s, cv.body)]
  /\ UNCHANGED <<genVars, engVars, fn>>

(***************************************************************************)
(* One call of a helper of utils/helpers.js: the frame fn holds the name   *)
(* of the helper, its argument and what it returned.                       *)
(***************************************************************************)
\* characters of a text given to the detector
MaxDetect == 4

NoFn == [op |-> "", arg |-> <<>>, result |-> <<>>, earlier |-> <<>>]

\* the texts given to the detector: every short text over the characters
\* the detector looks at, and longer ones that are JSON and hold a tag or
\* a Markdown pattern, are bracketed and hold a tag, or have white space
\* around
DetectorTexts ==
  SeqsUpTo({"{", "}", "[", "]", "<", ">", "a", "*", "#", " ", "\n", "1"}, MaxDetect)
  \cup {cJson, cBracketed, cHtml, cMarkdown, cText, cNull,
        <<"[", "\"", "<", "a", ">", "\"", "]">>,
        <<"[", "\"", "*", "a", "*", "\"", "]">>,
        <<"[", "<", "a", ">", "]">>,
        <<"[", "*", "<", "a", ">", "*", "]">>,
        <<"{", "*", "a", "*", "}">>,
        <<" ", "\n", "{", "\"", "a", "\"", ":", "1", "}", "\n">>,
        <<"<", "/", "B", ">", "*", "*", "a", "*", "*">>,
        <<"[", "a", "]", "(", "a", ")">>,
        <<"1", ".", " ", "a">>,
        <<Backtick, Backtick, Backtick>>}

\* keys of a margin object given to validatePdfOptions
MaxMargin == 2

\* the options given to validatePdfOptions: a page format that is absent,
\* allowed, unknown, in another letter case or empty, and a margin object
\* that is absent or has up to MaxMargin keys, known or not
PdfOptionSets ==
  LET formats == {Undefined, "A4", "Tabloid", "B5", "a4", ""}
      margins == {m \in SeqsUpTo({<<k, "1cm">> : k \in {"top", "left", "inner", "Top"}}, MaxMargin) :
                    \A i, j \in 1..Len(m) : m[i] = m[j] => i = j}
  IN  {[k \in {"format"} |-> f] : f \in formats \ {Undefined}}
      \cup {[k \in {"margin"} |-> m] : m \in margins}
      \cup {[format |-> f, margin |-> m] : f \in formats \ {Undefined}, m \in margins}
      \cup {<<>>}

\* what fs.readFile answers for the template file
ReadOutcomes ==
  {[ok |-> FALSE, code |-> c] : c \in {"ENOENT", "EACCES", "EISDIR", "EMFILE"}}
  \cup {[ok |-> TRUE, data |-> d] : d \in {<<>>, M("<html>") \o M("{{content}}") \o M("</html>")}}

\* detectContentType(content) is called with a string
FnDetect ==
  /\ fn.op = ""
  /\ \E content \in DetectorTexts :
       fn' = [NoFn EXCEPT !.op = "detectContentType", !.arg = content,
                          !.result = detectContentType(content)]
  /\ UNCHANGED <<genVars, engVars, cv>>

\* validatePdfOptions(options) is called
FnValidate ==
  /\ fn.op = ""
  /\ \E options \in PdfOptionSets :
       fn' = [NoFn EXCEPT !.op = "validatePdfOptions", !.arg = options,
                          !.result = validatePdfOptions(options)]
  /\ UNCHANGED <<genVars, engVars, cv>>

\* loadTemplate('default.html') is called
FnLoadTemplate ==
  /\ fn.op = ""
  /\ \E read \in ReadOutcomes :
       fn' = [NoFn EXCEPT !.op = "loadTemplate", !.arg = read,
                          !.result = loadTemplate(read)]
  /\ UNCHANGED <<genVars, engVars, cv>>

(***************************************************************************)
(* Conversions and detections one after the other in one process: the     *)
(* frame keeps the conversions that ended (cv.earlier), the number of      *)
(* marked.use registrations (cv.uses) and the detector's earlier results.  *)
(***************************************************************************)
\* conversions and detections in one process
MaxRuns == 3

\* what a process converts: each converter with two contents
Conversions ==
  {[converter |-> "json", options |-> [format |-> "table"],
    content |-> [isText |-> TRUE, text |-> <<"{", "\"", "a", "\"", ":", "7", "}">>]],
   [converter |-> "json", options |-> <<>>,
    content |-> [isText |-> TRUE, text |-> <<"{", "a", ":", "7", "}">>]],
   [converter |-> "text", options |-> [title |-> <<"T">>],
    content |-> <<"a", "\n", "\n", "<">>],
   [converter |-> "markdown", options |-> <<>>,
    content |-> JoinLines(<< <<"-", "-", "-">>, <<"title", ":", " ", "F">>,
                             <<"-", "-", "-">>, <<"#", " ", "H">> >>)],
   [converter |-> "markdown", options |-> <<>>, content |-> <<"#", " ", "H">>],
   [converter |-> "html", options |-> <<>>,
    content |-> <<"<html", ">", "<head>", "</head>", "x", "</html>">>],
   [converter |-> "html", options |-> <<>>, content |-> <<"<p>", "x", "</p>">>]}

\* the conversions of the process that have ended
Ended ==
  IF cv.pc = "idle" THEN cv.earlier
  ELSE Append(cv.earlier,
              [converter |-> cv.converter, content |-> cv.content,
               options |-> cv.options, uses |-> cv.uses,
               pc |-> cv.pc, html |-> cv.html, error |-> cv.error])

\* convert is invoked on a converter: one of a new engine, whose constructor
\* makes the four converters, or the one of the conversion before
ConvertAgain ==
  /\ cv.pc \in {"idle", "returned", "thrown"}
  /\ fn = NoFn
  /\ Len(Ended) < MaxRuns
  /\ \E c \in Conversions, fresh \in BOOLEAN :
       /\ cv.uses = 0 => fresh
       /\ cv' = [NoCv EXCEPT
                   !.pc = CASE c.converter = "json" -> "parse"
                            [] c.converter = "text" -> "paragraphs"
                            [] c.converter = "markdown" -> "extract"
                            [] c.converter = "html" -> "check",
                   !.converter = c.converter, !.content = c.content,
                   !.options = c.options, !.earlier = Ended,
                   !.uses = IF fresh THEN cv.uses + 1 ELSE cv.uses]
  /\ UNCHANGED <<genVars, engVars, fn>>

\* detectContentType is called again with the string of the call before
FnDetectAgain ==
  /\ fn.op = "detectContentType"
  /\ Len(fn.earlier) < MaxRuns - 1
  /\ fn' = [fn EXCEPT !.earlier = Append(@, fn.result),
                      !.result = detectContentType(fn.arg)]
  /\ UNCHANGED <<genVars, engVars, cv>>

(***************************************************************************)
(* Specifications.  Spec: the engine serves one request (a direct call of  *)
(* convertToPDF, a POST to /api/convert or /api/upload, or a batch), with  *)
(* the generator as it is after construction or after an earlier request   *)
(* launched the browser.  SpecGen: the generator under concurrent callers. *)
(***************************************************************************)
GenInit ==
  /\ browser = 0
  /\ launched = 0
  /\ alive = {}
  /\ pages = {}
  /\ calls = [r \in Callers |-> IdleCall]
  /\ closer = [pc |-> "idle", b |-> 0, n |-> 0]
  /\ printed = <<>>

\* the generator after an earlier request: the browser is launched, no page is open
GenWarm ==
  /\ browser = 1
  /\ launched = 1
  /\ alive = {1}
  /\ pages = {}
  /\ calls = [r \in Callers |-> IdleCall]
  /\ closer = [pc |-> "idle", b |-> 0, n |-> 0]
  /\ printed = <<>>

EngInit ==
  /\ pc = "idle"
  /\ req = NoRequest
  /\ ctp = NoCtp
  /\ cf = NoCf
  /\ batch = NoBatch
  /\ out = NoOut
  /\ fsOut = <<>>
  /\ fsDirs = {}

Init == (GenInit \/ GenWarm) /\ EngInit /\ cv = NoCv /\ fn = NoFn

Next ==
  \/ StartConvertToPDF /\ UNCHANGED <<cv, fn>>
  \/ FinishConvertToPDF /\ UNCHANGED <<cv, fn>>
  \/ StartHandleConvert /\ UNCHANGED <<cv, fn>>
  \/ RespondHandleConvert /\ UNCHANGED <<cv, fn>>
  \/ StartHandleUpload /\ UNCHANGED <<cv, fn>>
  \/ RespondHandleUpload /\ UNCHANGED <<cv, fn>>
  \/ StartBatch /\ UNCHANGED <<cv, fn>>
  \/ BatchItem /\ UNCHANGED <<cv, fn>>
  \/ CfRead /\ UNCHANGED <<cv, fn>>
  \/ CfConverted /\ UNCHANGED <<cv, fn>>
  \/ CfEnsureDir /\ UNCHANGED <<cv, fn>>
  \/ CfWrite /\ UNCHANGED <<cv, fn>>
  \/ BatchPush /\ UNCHANGED <<cv, fn>>
  \/ BatchReturn /\ UNCHANGED <<cv, fn>>
  \/ CtpCheck /\ UNCHANGED <<cv, fn>>
  \/ CtpConvert /\ UNCHANGED <<cv, fn>>
  \/ CtpRender /\ UNCHANGED <<cv, fn>>
  \/ CtpSettle /\ UNCHANGED <<cv, fn>>
  \/ InitBrowser(Engine) /\ UNCHANGED engVars /\ UNCHANGED <<cv, fn>>
  \/ LaunchSettles(Engine) /\ UNCHANGED engVars /\ UNCHANGED <<cv, fn>>
  \/ NewPage(Engine) /\ UNCHANGED engVars /\ UNCHANGED <<cv, fn>>
  \/ SetContent(Engine) /\ UNCHANGED engVars /\ UNCHANGED <<cv, fn>>
  \/ Pdf(Engine) /\ UNCHANGED engVars /\ UNCHANGED <<cv, fn>>
  \/ ClosePage(Engine) /\ UNCHANGED engVars /\ UNCHANGED <<cv, fn>>

Spec == Init /\ [][Next]_vars

InitGen == GenInit /\ EngInit /\ cv = NoCv /\ fn = NoFn

NextGen ==
  \/ \E r \in Callers \ {Engine} : Call(r) /\ UNCHANGED engVars /\ UNCHANGED <<cv, fn>>
  \/ \E r \in Callers \ {Engine} : InitBrowser(r) /\ UNCHANGED engVars /\ UNCHANGED <<cv, fn>>
  \/ \E r \in Callers \ {Engine} : LaunchSettles(r) /\ UNCHANGED engVars /\ UNCHANGED <<cv, fn>>
  \/ \E r \in Callers \ {Engine} : NewPage(r) /\ UNCHANGED engVars /\ UNCHANGED <<cv, fn>>
  \/ \E r \in Callers \ {Engine} : SetContent(r) /\ UNCHANGED engVars /\ UNCHANGED <<cv, fn>>
  \/ \E r \in Callers \ {Engine} : Pdf(r) /\ UNCHANGED engVars /\ UNCHANGED <<cv, fn>>
  \/ \E r \in Callers \ {Engine} : ClosePage(r) /\ UNCHANGED engVars /\ UNCHANGED <<cv, fn>>
  \/ CloseBegin /\ UNCHANGED engVars /\ UNCHANGED <<cv, fn>>
  \/ CloseEnd /\ UNCHANGED engVars /\ UNCHANGED <<cv, fn>>

SpecGen == InitGen /\ [][NextGen]_vars

\* SpecConv: one call of a converter's convert
InitConv == GenInit /\ EngInit /\ cv = NoCv /\ fn = NoFn

NextConv ==
  \/ JcStart
  \/ JcParse
  \/ JcBind
  \/ TcStart
  \/ TcParagraphs
  \/ TcBind
  \/ CvLoadTemplate

SpecConv == InitConv /\ [][NextConv]_vars

\* SpecMd: one call of MarkdownConverter.convert
NextMd ==
  \/ McStart
  \/ McExtract
  \/ CvLoadTemplate
  \/ McBind

SpecMd == InitConv /\ [][NextMd]_vars

\* SpecHtml: one call of HtmlConverter.convert
NextHtml ==
  \/ HcStart
  \/ HcConvert
  \/ CvLoadTemplate
  \/ HcBind

SpecHtml == InitConv /\ [][NextHtml]_vars

\* SpecFn: one call of a helper
InitFn == GenInit /\ EngInit /\ cv = NoCv /\ fn = NoFn

NextFn ==
  \/ FnDetect
  \/ FnValidate
  \/ FnLoadTemplate

SpecFn == InitFn /\ [][NextFn]_vars

\* SpecTwice: up to MaxRuns conversions, or detections of one text, in one
\* process
NextTwice ==
  \/ ConvertAgain
  \/ JcParse
  \/ JcBind
  \/ TcParagraphs
  \/ TcBind
  \/ McExtract
  \/ McBind
  \/ HcConvert
  \/ HcBind
  \/ CvLoadTemplate
  \/ cv.pc = "idle" /\ FnDetect
  \/ FnDetectAgain

SpecTwice == InitConv /\ [][NextTwice]_vars

(***************************************************************************)
(* The claims about convertToPDF.                                          *)
(***************************************************************************)
\* C1: a convertToPDF call whose type is none of text, html, json, markdown
\* fails with the unsupported-type error, and neither a converter nor the
\* render adapter is invoked during the call.
C1_UnsupportedTypeRejected ==
  (ctp.pc /= "none" /\ ctp.type \notin ConverterNames) =>
    /\ ctp.convCalls = <<>>
    /\ ctp.renderCalls = <<>>
    /\ ctp.pc /= "returned"
    /\ ctp.pc = "thrown" =>
         ctp.error = <<"PDF generation failed: ", "Unsupported content type: ", Str(ctp.type)>>

\* C2: a failure of the type check, of the converter or of the render adapter
\* ends convertToPDF at once: no later step has run, no step has run twice,
\* the error is the failing step's message behind "PDF generation failed: ",
\* and the caller gets that one error and no bytes.
C2_FailureEndsCall ==
  ctp.pc = "thrown" =>
    /\ ctp.error = <<"PDF generation failed: ">> \o ctp.origin
    /\ ctp.origin /= <<>>
    /\ ctp.bytes = NoBytes
    /\ ctp.failedAt \in {"check", "dispatch"} =>
         ctp.convCalls = <<>> /\ ctp.renderCalls = <<>>
    /\ ctp.failedAt = "convert" =>
         /\ Len(ctp.convCalls) = 1
         /\ ~ctp.convCalls[1].ok
         /\ ctp.origin = Convert(ctp.type, ctp.content, ctp.convCalls[1].options).error
         /\ ctp.renderCalls = <<>>
    /\ ctp.failedAt = "render" =>
         /\ Len(ctp.convCalls) = 1
         /\ Len(ctp.renderCalls) = 1
         /\ calls[Engine].pc = "done"
         /\ ~calls[Engine].ok
         /\ ctp.origin = calls[Engine].error
    /\ (req.entry = "convertToPDF" /\ pc = "done") =>
         out = [kind |-> "call", ok |-> FALSE, bytes |-> NoBytes,
                error |-> <<"PDF generation failed: ">> \o ctp.origin]
    /\ req.entry /= "batchConvert" => Len(printed) <= 1

\* C2's case: the render adapter failed and the caller of convertToPDF has the error
C2_Witness ==
  /\ req.entry = "convertToPDF"
  /\ pc = "done"
  /\ ctp.pc = "thrown"
  /\ ctp.failedAt = "render"
  /\ ~out.ok

\* C3: when the converter and the renderer succeed, the converter of the type
\* was invoked once with the content, the render adapter once with the HTML
\* that converter returned, and the caller gets the bytes the adapter returned.
C3_SuccessPath ==
  ctp.pc = "returned" =>
    /\ ctp.type \in ConverterNames
    /\ Len(ctp.convCalls) = 1
    /\ ctp.convCalls[1].type = ctp.type
    /\ ctp.convCalls[1].content = ctp.content
    /\ ctp.convCalls[1].html.by = ctp.type
    /\ Len(ctp.renderCalls) = 1
    /\ ctp.renderCalls[1].html = ctp.convCalls[1].html
    /\ calls[Engine].ok
    /\ calls[Engine].bytes.html = ctp.convCalls[1].html
    /\ ctp.bytes = calls[Engine].bytes
    /\ (req.entry = "convertToPDF" /\ pc = "done") =>
         out = [kind |-> "call", ok |-> TRUE, bytes |-> calls[Engine].bytes, error |-> <<>>]

\* C3's case: a JSON document went through the converter and the renderer
C3_Witness ==
  /\ req.entry = "convertToPDF"
  /\ pc = "done"
  /\ ctp.pc = "returned"
  /\ ctp.type = "json"
  /\ out.ok

(***************************************************************************)
(* The claims about the HTTP endpoints and the page layout.                *)
(***************************************************************************)
\* C4: a request whose type is "auto" or is not declared is converted with
\* the converter the detector names for its content, and a declared type
\* among text, html, json, markdown is the one used.
C4_AutoTypeIsDetected ==
  (req.entry \in {"handleConvert", "handleUpload"} /\ ctp.pc /= "none") =>
    /\ req.type \in {"auto", "", Undefined} => ctp.type = detectContentType(req.content)
    /\ req.type \in ConverterNames => ctp.type = req.type

\* whether options name a page format that is none of the six allowed (the
\* display modes of the JSON converter share the key and are left out)
NamesBadPageFormat(options) ==
  \/ Get(options, "format") \notin
       Range(validFormats) \cup {Undefined, "", "structured", "table", "raw"}
  \/ Get(options, "pageFormat") \notin Range(validFormats) \cup {Undefined, ""}

\* C5: a POST to /api/convert whose options name a page format outside A4,
\* A3, A5, Legal, Letter, Tabloid is rejected by validation, and neither a
\* converter nor the render adapter is invoked for it.
C5_BadPageFormatRejected ==
  (req.entry = "handleConvert" /\ req.content /= <<>> /\ NamesBadPageFormat(req.options)) =>
    /\ ctp.convCalls = <<>>
    /\ ctp.renderCalls = <<>>
    /\ pc = "done" => (out.status = 400 /\ out.error = "Invalid PDF options")

\* C6: the layout page.pdf is given is the layout the options of the
\* convertToPDF call ask for: the page format, the margins, printBackground
\* and the header and footer templates.
C6_LayoutAsRequested ==
  (ctp.pc = "render" /\ calls[Engine].pc \in {"close", "done"} /\ calls[Engine].ok) =>
    LET layout == printed[Len(printed)].layout
        asked == ctp.options
    IN  /\ Get(asked, "format") \in Range(validFormats) => layout.format = asked["format"]
        /\ "margin" \in DOMAIN asked => layout.margin = asked["margin"]
        /\ "printBackground" \in DOMAIN asked =>
             layout.printBackground = asked["printBackground"]
        /\ "headerTemplate" \in DOMAIN asked =>
             layout.headerTemplate = asked["headerTemplate"]
        /\ "footerTemplate" \in DOMAIN asked =>
             layout.footerTemplate = asked["footerTemplate"]

(***************************************************************************)
(* The claims about batchConvert.                                          *)
(***************************************************************************)
\* C7: batchConvert returns one entry per item, in the order of the items;
\* an entry is a success with the written output path when the item was
\* converted and its file written, and a failure with the message otherwise;
\* a failed item does not keep the later items from being converted.
C7_BatchResultsPerItem ==
  (req.entry = "batchConvert" /\ pc = "done") =>
    /\ out.returned
    /\ Len(out.results) = Len(req.files)
    /\ \A i \in 1..Len(out.results) :
         IF out.results[i].success
         THEN /\ out.results[i].file = req.files[i].output
              /\ out.results[i].file \in DOMAIN fsOut
         ELSE /\ out.results[i].file = req.files[i].input
              /\ out.results[i].error /= <<>>

\* C8: batchConvert never throws, whatever the items are: it returns a list
\* of results, and errors are entries of that list only.
C8_BatchNeverThrows ==
  (req.entry = "batchConvert" /\ pc = "done") => out.returned

\* C9: the items of a batch are converted one after the other in the order
\* of the list: an item is started only when every item before it has its
\* entry, so that at most one item is in flight, and a conversion runs only
\* inside the item in flight.
C9_BatchSequential ==
  req.entry = "batchConvert" =>
    /\ \A k \in 1..Len(batch.started) : batch.started[k] = k
    /\ Len(batch.started) \in {Len(batch.results), Len(batch.results) + 1}
    /\ cf.pc /= "none" => Len(batch.started) = Len(batch.results) + 1
    /\ cf.pc = "none" => Len(batch.started) = Len(batch.results)
    /\ ctp.pc /= "none" => cf.pc = "convert"
    /\ calls[Engine].pc \notin {"idle", "done"} => cf.pc = "convert"

\* C9's case: the first item has failed and the second is being written
C9_Witness ==
  /\ req.entry = "batchConvert"
  /\ Len(batch.results) = 1
  /\ ~batch.results[1].success
  /\ batch.started = <<1, 2>>
  /\ cf.pc = "write"

(***************************************************************************)
(* The claims about the pages of the generator.                            *)
(***************************************************************************)
InFlight == {r \in Callers : calls[r].pc \notin {"idle", "done"}}

\* C10: a render call that opened a page has closed it when it completes,
\* with a PDF or with an error; every open page belongs to one call in
\* flight, which has no other; there are never more open pages than calls
\* in flight, and none when every call has completed.
C10_PagesClosed ==
  /\ \A r \in Callers : calls[r].pc \in {"idle", "done"} => \A p \in pages : p.owner /= r
  /\ \A p \in pages :
       /\ p.owner \in InFlight
       /\ calls[p.owner].opened
       /\ p = PageOf(p.owner)
  /\ \A p, q \in pages : p.owner = q.owner => p = q
  /\ Cardinality(pages) <= Cardinality(InFlight)
  /\ InFlight = {} => pages = {}

\* C10's case: one call has failed after it opened its page, another has its page open
C10_Witness ==
  \E r, q \in Callers :
    /\ r /= q
    /\ calls[r].pc = "done"
    /\ calls[r].opened
    /\ ~calls[r].ok
    /\ PageOf(q) \in pages
    /\ PageOf(r) \notin pages

(***************************************************************************)
(* The claims about the browser of the generator.                          *)
(***************************************************************************)
\* C11: as long as close() has not been called, puppeteer.launch has started
\* at most one browser, and every render call that holds a browser holds the
\* one this.browser refers to.
C11_OneBrowser ==
  closer.n = 0 =>
    /\ launched <= 1
    /\ \A r \in Callers : calls[r].b /= 0 => calls[r].b = browser

\* a step with which a call of close() completes: browser.close() settles,
\* or close() found this.browser null and returned at once
CloseCompletes ==
  \/ closer.pc = "closing" /\ closer'.pc = "idle"
  \/ closer.pc = "idle" /\ closer'.pc = "idle" /\ closer'.n = closer.n + 1

\* C12: when a call of close() completes, no browser the generator launched
\* is running and no render call is in progress.
C12_CloseStopsEverything ==
  [][CloseCompletes => (alive' = {} /\ \A r \in Callers : calls'[r].pc \in {"idle", "done"})]_vars

(***************************************************************************)
(* The claims about the converters.                                        *)
(***************************************************************************)
\* whether one of the five entities stands in text from position i on
EntityAt(text, i) ==
  \E c \in {"&", "<", ">", "\"", "'"} : MatchAt(text, i, EntityOf(c))

\* C13: in the HTML jsonToHtml gives, in each display mode, none of the
\* characters < > ' of a JSON string or key stands as it is among the
\* characters computed from the data, and every & there begins an entity.
C13_JsonStringsEscaped ==
  (cv.converter = "json" /\ cv.ran /= <<>> /\ cv.body /= <<>>) =>
    LET text == TextOf(cv.body)
    IN  \A i \in 1..Len(text) :
          /\ text[i] \notin {"<", ">", "'"}
          /\ text[i] = "&" => EntityAt(text, i)

\* the text an escaped text stands for: each entity read back as its character
unescapeHtml(text) ==
  LET charAt(i) == CHOOSE d \in {"&", "<", ">", "\"", "'"} : MatchAt(text, i, EntityOf(d))
      inside(i) == \E j \in 1..i - 1 :
                     EntityAt(text, j) /\ i < j + Len(EntityOf(charAt(j)))
  IN  Concat([i \in 1..Len(text) |->
        IF EntityAt(text, i) THEN <<charAt(i)>>
        ELSE IF inside(i) THEN <<>>
        ELSE <<text[i]>>])

\* whether a text holds none of & < > " ' but as the start of an entity
IsEscaped(text) ==
  \A i \in 1..Len(text) :
    /\ text[i] \notin {"<", ">", "\"", "'"}
    /\ text[i] = "&" => EntityAt(text, i)

\* the part of a bound document that stands in its document-content element
ContentOf(html) ==
  LET open == CHOOSE i \in 1..Len(html) :
                /\ html[i] = M("</h1><div class=\"document-content\">")[1]
                /\ \A j \in 1..Len(html) :
                     html[j] = M("</h1><div class=\"document-content\">")[1] => i <= j
      close == CHOOSE i \in 1..Len(html) :
                 /\ html[i] = M("</div></div></body></html>")[1]
                 /\ \A j \in 1..Len(html) :
                      html[j] = M("</div></div></body></html>")[1] => j <= i
  IN  SubSeq(html, open + 1, close - 1)

\* a text without its newlines and white space
Visible(text) == SelectSeq(text, LAMBDA c : c \notin Space)

\* C14, the paragraphs alone: what TextConverter.convert builds before the
\* template is bound holds no markup but <p>, <br>, </p> and the newline
\* that joins two paragraphs, and its text is escaped and stands for the
\* visible characters of the input.
C14_ParagraphsEscaped ==
  (cv.converter = "text" /\ cv.pc \in {"template", "bind", "returned"}) =>
    /\ \A i \in 1..Len(cv.body) :
         cv.body[i].k = "m" => cv.body[i].v \in {"<p>", "<br>", "</p>", "\n"}
    /\ IsEscaped(TextOf(cv.body))
    /\ Visible(unescapeHtml(TextOf(cv.body))) = Visible(cv.content)

\* C14: in the document TextConverter.convert returns, the content element
\* holds the paragraphs: no markup but <p>, <br>, </p> and the joining
\* newline, and the characters & < > " ' of the text only as entities.
C14_TextEscapedBeforeMarkup ==
  (cv.converter = "text" /\ cv.pc = "returned") =>
    /\ \A i \in 1..Len(ContentOf(cv.html)) :
         ContentOf(cv.html)[i].k = "m" =>
           ContentOf(cv.html)[i].v \in {"<p>", "<br>", "</p>", "\n"}
    /\ IsEscaped(TextOf(ContentOf(cv.html)))
    /\ Visible(unescapeHtml(TextOf(ContentOf(cv.html)))) = Visible(cv.content)

FirstOf(html, markup) ==
  IF \E i \in 1..Len(html) : html[i] = M(markup)[1]
  THEN CHOOSE i \in 1..Len(html) :
         /\ html[i] = M(markup)[1]
         /\ \A j \in 1..i - 1 : html[j] /= M(markup)[1]
  ELSE 0

\* what stands between each opening markup and the closing markup after it
RECURSIVE Between(_, _, _)
Between(html, open, close) ==
  IF FirstOf(html, open) = 0 THEN <<>>
  ELSE LET rest == SubSeq(html, FirstOf(html, open) + 1, Len(html))
       IN  <<SubSeq(rest, 1, FirstOf(rest, close) - 1)>>
           \o Between(SubSeq(rest, FirstOf(rest, close) + 1, Len(rest)), open, close)

\* the distinct keys of the items of an array, ordered by first appearance
FirstSeenKeys(items) ==
  LET flat == Concat([i \in 1..Len(items) |-> Keys(items[i])])
      RECURSIVE upTo(_)
      upTo(j) == IF j = 0 THEN <<>>
                 ELSE IF \E m \in 1..j - 1 : flat[m] = flat[j] THEN upTo(j - 1)
                 ELSE Append(upTo(j - 1), flat[j])
  IN  upTo(Len(flat))

\* C16: for a root array that is not empty and whose items are all plain
\* objects, table mode gives a table with one column per distinct key, in
\* the order of first appearance, one row per item in the order of the
\* array, and a cell is empty exactly when the item lacks the key.
C16_ArrayTableColumns ==
  (/\ cv.converter = "json"
   /\ cv.ran = <<"table">>
   /\ cv.data.t = "array"
   /\ cv.data.items /= <<>>
   /\ AllPlainObjects(cv.data.items)) =>
    LET keys == FirstSeenKeys(cv.data.items)
        heads == Between(cv.body, "<th>", "</th>")
        rows == Between(cv.body, "<tr>", "</tr>")
    IN  /\ cv.body /= <<>>
        /\ Len(heads) = Len(keys)
        /\ \A c \in 1..Len(heads) : heads[c] = T(escapeHtml(keys[c]))
        /\ Len(rows) = Len(cv.data.items)
        /\ \A r \in 1..Len(rows) :
             LET cells == Between(rows[r], "<td>", "</td>")
             IN  /\ Len(cells) = Len(keys)
                 /\ \A c \in 1..Len(cells) :
                      IF HasKey(cv.data.items[r], keys[c])
                      THEN cells[c] = formatTableCell(ValueAt(cv.data.items[r], keys[c]))
                      ELSE cells[c] = <<>>

\* the rows of the table objectToTable builds: what stands between the
\* opening of each row's key cell and the end of the row
ObjectRows(body) == Between(body, "<tr><td class=\"json-key\">", "</td></tr>")

\* whether convert ran table mode on a plain-object root
TableOfObject ==
  /\ cv.converter = "json"
  /\ cv.ran = <<"table">>
  /\ cv.data.t = "object"

Rendered ==
  /\ cv.converter = "json"
  /\ cv.pc \in {"returned", "thrown"}
  /\ cv.template /= <<>>

\* the display mode the caller asked for, "" when the option is absent
AskedMode == IF "format" \in DOMAIN cv.options THEN cv.options["format"] ELSE ""

\* C18: every JSON conversion that reaches the rendering runs exactly one
\* of the three algorithms: table when the display mode is 'table', raw
\* when it is 'raw', structured when it is 'structured', absent or anything
\* else; the body is what that algorithm gives, and an unknown mode raises
\* no error.
C18_OneAlgorithm ==
  Rendered =>
    /\ Len(cv.ran) = 1
    /\ cv.ran[1] \in {"structured", "table", "raw"}
    /\ cv.ran[1] = "table" <=> AskedMode = "table"
    /\ cv.ran[1] = "raw" <=> AskedMode = "raw"
    /\ cv.pc = "returned" =>
         cv.body = (IF AskedMode = "table" THEN jsonToTable(cv.data)
                    ELSE IF AskedMode = "raw" THEN jsonToRaw(cv.data)
                    ELSE jsonToStructured(cv.data, 0))
    /\ (AskedMode \notin {"table", "raw"} /\ cv.title.t = "string") => cv.pc = "returned"

\* C18, witness: a conversion asked for the unknown mode 'yaml' has
\* returned a document of an array that is not empty.
C18_Witness ==
  /\ Rendered
  /\ cv.pc = "returned"
  /\ AskedMode = "yaml"
  /\ cv.data.t = "array"
  /\ cv.data.items /= <<>>

\* the nodes of a JSON tree, the root first, each with the kind of the node
\* it stands in
RECURSIVE Walk(_, _)
Walk(data, parent) ==
  <<[in |-> parent, node |-> data]>>
  \o (IF data.t = "array"
      THEN Concat([i \in 1..Len(data.items) |-> Walk(data.items[i], "array")])
      ELSE IF data.t = "object"
      THEN Concat([i \in 1..Len(data.members) |-> Walk(data.members[i][2], "object")])
      ELSE <<>>)

\* how many nodes of a JSON tree satisfy a test
CountNodes(data, Test(_)) ==
  Cardinality({i \in 1..Len(Walk(data, "")) : Test(Walk(data, "")[i])})

\* how many times a piece of markup stands in an HTML
CountOf(html, markup) == Cardinality({i \in 1..Len(html) : html[i] = M(markup)[1]})

\* the characters a structured rendering owes to the data, in the order of
\* the tree: the indentation of each array and object that is not empty,
\* the index before each item, the escaped key before each value, and the
\* scalars
RECURSIVE TreeText(_, _)
TreeText(data, level) ==
  CASE data.t = "null" -> <<>>
    [] data.t = "string" -> escapeHtml(data.s)
    [] data.t = "number" -> NumChars(data.n)
    [] data.t = "boolean" -> IF data.b THEN <<"t", "r", "u", "e">> ELSE <<"f", "a", "l", "s", "e">>
    [] data.t = "array" ->
         IF data.items = <<>> THEN <<>>
         ELSE NumChars(level * 20)
              \o Concat([i \in 1..Len(data.items) |->
                   NumChars(i - 1) \o TreeText(data.items[i], level + 1)])
    [] data.t = "object" ->
         IF data.members = <<>> THEN <<>>
         ELSE NumChars(level * 20)
              \o Concat([i \in 1..Len(data.members) |->
                   escapeHtml(data.members[i][1]) \o TreeText(data.members[i][2], level + 1)])

\* whether convert rendered in structured mode
StructuredRan ==
  /\ cv.converter = "json"
  /\ cv.ran = <<"structured">>

\* C19: the structured rendering covers the whole tree: it has one item
\* block per element of every array and one per key of every object, one
\* null marker per null, one [] marker per empty array and one {} marker
\* per empty object, the two markers being different, and the indexes, keys
\* and scalars stand in it in the order of the tree.
C19_StructuredCoversTree ==
  StructuredRan =>
    /\ CountOf(cv.body, "<div class=\"json-array-item\"><span class=\"json-index\">[")
         = CountNodes(cv.data, LAMBDA w : w.in = "array")
    /\ CountOf(cv.body, "<div class=\"json-object-item\"><span class=\"json-key\">\"")
         = CountNodes(cv.data, LAMBDA w : w.in = "object")
    /\ CountOf(cv.body, "<span class=\"json-null\">null</span>")
         = CountNodes(cv.data, LAMBDA w : w.node.t = "null")
    /\ CountOf(cv.body, "<span class=\"json-empty\">[]</span>")
         = CountNodes(cv.data, LAMBDA w : w.node.t = "array" /\ w.node.items = <<>>)
    /\ CountOf(cv.body, "<span class=\"json-empty\">{}</span>")
         = CountNodes(cv.data, LAMBDA w : w.node.t = "object" /\ w.node.members = <<>>)
    /\ TextOf(cv.body) = TreeText(cv.data, 0)

\* C19, witness: structured mode has rendered a tree with several nodes
\* below its root, one of them an empty array or an empty object.
C19_Witness ==
  /\ StructuredRan
  /\ cv.pc = "returned"
  /\ CountNodes(cv.data, LAMBDA w : w.in /= "" /\ w.node \in {JArr(<<>>), JObj(<<>>)}) > 0
  /\ CountNodes(cv.data, LAMBDA w : w.in /= "") > 1

\* what stands in the title element of a bound document
TitleOf(html) == SubSeq(html, 2, FirstOf(html, "</title><style>") - 1)

\* whether a call of JsonConverter.convert on valid JSON has ended
JsonConverted ==
  /\ cv.converter = "json"
  /\ cv.pc \in {"returned", "thrown"}
  /\ cv.error /= <<"Invalid JSON: ", "Unexpected token">>

\* the JSON value convert was given
GivenData == IF cv.content.isText THEN JsonParse(cv.content.text).v ELSE cv.content.value

\* C20: a conversion of valid JSON returns a document whose title is the
\* title option when one is given, otherwise the title field of the root
\* object when it has one, otherwise the empty string, HTML-escaped.
C20_JsonTitleResolved ==
  JsonConverted =>
    /\ cv.pc = "returned"
    /\ LET resolved ==
             IF "title" \in DOMAIN cv.options THEN JStr(cv.options["title"])
             ELSE IF GivenData.t = "object" /\ HasKey(GivenData, <<"title">>)
             THEN ValueAt(GivenData, <<"title">>)
             ELSE JStr(<<>>)
       IN  resolved.t = "string" => TitleOf(cv.html) = T(escapeHtml(resolved.s))

(***************************************************************************)
(* The claims about the helpers.                                           *)
(***************************************************************************)
\* whether a trimmed text stands between a { and a } or between a [ and a ]
Delimited(t) ==
  \/ startsWith(t, "{") /\ endsWith(t, "}")
  \/ startsWith(t, "[") /\ endsWith(t, "]")

\* C21: for every string the detector returns one of json, html, markdown
\* and text, by strict priority: json exactly when the trimmed content is
\* delimited by a matching pair and parses; otherwise html exactly when it
\* holds a tag; otherwise markdown exactly when a Markdown pattern matches;
\* otherwise text.
C21_DetectorPriority ==
  fn.op = "detectContentType" =>
    LET t == trim(fn.arg)
        isJson == Delimited(t) /\ JsonParses(t)
    IN  /\ fn.result \in {"json", "html", "markdown", "text"}
        /\ fn.result = "json" <=> isJson
        /\ fn.result = "html" <=> ~isJson /\ htmlPattern(t)
        /\ fn.result = "markdown" <=> ~isJson /\ ~htmlPattern(t) /\ markdownPatterns(t)
        /\ fn.result = "text" <=> ~isJson /\ ~htmlPattern(t) /\ ~markdownPatterns(t)

\* C21, witness: a bracket-delimited text that does not parse, holds a tag
\* and matches a Markdown pattern has been classified as html.
C21_Witness ==
  /\ fn.op = "detectContentType"
  /\ Delimited(trim(fn.arg))
  /\ ~JsonParses(trim(fn.arg))
  /\ markdownPatterns(trim(fn.arg))
  /\ fn.result = "html"

(***************************************************************************)
(* The claims about the Markdown converter.                                *)
(***************************************************************************)
\* whether MarkdownConverter.convert has extracted the frontmatter
Extracted ==
  /\ cv.converter = "markdown"
  /\ cv.pc \in {"template", "bind", "returned"}

\* the line on which the frontmatter block of a text closes: the first ---
\* line after a --- line that begins the text; 0 when there is none
ClosingLine(content) ==
  LET lines == SplitLines(content)
      closings == {c \in 2..Len(lines) : lines[c] = <<"-", "-", "-">>}
  IN  IF lines[1] = <<"-", "-", "-">> /\ closings /= {}
      THEN CHOOSE c \in closings : \A d \in closings : c <= d
      ELSE 0

\* C23: when the content begins with a --- line and a closing --- line
\* follows, the metadata is the key: value pairs of the enclosed lines and
\* the body is exactly the text after the first closing delimiter;
\* otherwise the metadata is empty and the body is the whole input.
C23_FrontmatterSplit ==
  Extracted =>
    LET lines == SplitLines(cv.content)
        c == ClosingLine(cv.content)
    IN  IF c = 0
        THEN cv.data = [content |-> cv.content, metadata |-> <<>>]
        ELSE /\ cv.data.metadata = ParseMetadata(SubSeq(lines, 2, c - 1), <<>>)
             /\ cv.data.content = JoinLines(SubSeq(lines, c + 1, Len(lines)))

\* the text of a heading line: what follows its run of # and the white
\* space after it; <<>> for a line that is no heading with a text
HeadingText(line) ==
  LET n == RunLen(line, 1, {"#"})
      w == RunLen(line, n + 1, {" ", "\t"})
  IN  IF n >= 1 /\ w >= 1 THEN SubSeq(line, n + w + 1, Len(line)) ELSE <<>>

\* the text of the first heading among some lines, <<>> when none has one
FirstHeading(lines) ==
  LET headings == {i \in 1..Len(lines) : HeadingText(lines[i]) /= <<>>}
  IN  IF headings = {} THEN <<>>
      ELSE HeadingText(lines[CHOOSE i \in headings : \A j \in headings : i <= j])

\* C24: the title of a Markdown document is the title option when one is
\* given; otherwise the title of the frontmatter when it has one; otherwise
\* the text of the first heading of the body; otherwise the empty string.
C24_MarkdownTitleResolved ==
  Extracted =>
    LET lines == SplitLines(cv.content)
        c == ClosingLine(cv.content)
        metadata == IF c = 0 THEN <<>> ELSE ParseMetadata(SubSeq(lines, 2, c - 1), <<>>)
        body == IF c = 0 THEN lines ELSE SubSeq(lines, c + 1, Len(lines))
    IN  cv.title.s =
          (IF "title" \in DOMAIN cv.options THEN cv.options["title"]
           ELSE IF HasKey(JObj(metadata), <<"title">>) THEN ValueAt(JObj(metadata), <<"title">>)
           ELSE FirstHeading(body))

(***************************************************************************)
(* The claims about the HTML converter.                                    *)
(***************************************************************************)
\* whether an HTML text holds a word, in any letter case
HoldsWord(content, word) == \E i \in 1..Len(content) : toLowerCase(content[i]) = word

\* C25: for an input that holds a doctype or an <html tag, in any letter
\* case, the converter returns the input with the style block once in its
\* head: the block stands once in the document, before the end of the
\* head, every character of the input is kept in its place, a head is
\* written only when the input has none and an html wrapper only when the
\* input has no html tag; any other input is embedded into the template.
C25_DocumentGetsStylesOnce ==
  (cv.converter = "html" /\ cv.pc = "returned") =>
    IF HoldsWord(cv.content, "<!doctype html>") \/ HoldsWord(cv.content, "<html")
    THEN /\ CountOf(cv.html, pdfStyles[1].v) = 1
         /\ TextOf(cv.html) = cv.content
         /\ \E h \in 1..Len(cv.html) :
              /\ \/ toLowerCase(cv.html[h].v) = "</head>"
                 \/ cv.html[h] = M("</head>")[1]
              /\ FirstOf(cv.html, pdfStyles[1].v) < h
              /\ \A j \in 1..h - 1 : toLowerCase(cv.html[j].v) /= "</head>"
         /\ HoldsWord(cv.content, "<head>") =>
              CountOf(cv.html, "<head><title>PDF Document</title>") = 0
         /\ HoldsWord(cv.content, "<html") =>
              CountOf(cv.html, "<!DOCTYPE html><html>") = 0
    ELSE /\ cv.template /= <<>>
         /\ ContentOf(cv.html) = T(cv.content)

\* C26: whenever the template file cannot be read, for whatever reason,
\* loadTemplate returns (it does not throw) the default shell, which holds
\* the title, the content and the style placeholder.
C26_TemplateFallback ==
  (fn.op = "loadTemplate" /\ ~fn.arg.ok) =>
    /\ \A i \in 1..Len(fn.result) : fn.result[i].k = "m"
    /\ CountOf(fn.result, "{{title}}") >= 1
    /\ CountOf(fn.result, "{{content}}") = 1
    /\ CountOf(fn.result, "{{style}}") = 1
    /\ FirstOf(fn.result, "{{title}}") < FirstOf(fn.result, "{{content}}")

\* C26, witness: the template file was there but could not be read, and
\* loadTemplate has returned.
C26_Witness ==
  /\ fn.op = "loadTemplate"
  /\ ~fn.arg.ok
  /\ fn.arg.code = "EACCES"
  /\ fn.result /= <<>>

\* whether a page format is given and is none of the allowed ones
BadFormat(options) ==
  /\ "format" \in DOMAIN options
  /\ options["format"] /= ""
  /\ options["format"] \notin {"A4", "A3", "A5", "Legal", "Letter", "Tabloid"}

\* the positions of the margin keys that are none of top, right, bottom, left
BadMarginKeys(options) ==
  IF "margin" \in DOMAIN options
  THEN {i \in 1..Len(options["margin"]) :
          options["margin"][i][1] \notin {"top", "right", "bottom", "left"}}
  ELSE {}

\* C27: validatePdfOptions returns one message for a page format that is
\* given and not allowed, plus one message for each margin key that is not
\* recognised, each naming its field; the list is empty exactly when the
\* format is absent or allowed and every margin key is recognised.
C27_OneMessagePerInvalidField ==
  fn.op = "validatePdfOptions" =>
    LET formatMessages == {i \in 1..Len(fn.result) : fn.result[i][1] = "Invalid format: "}
        marginMessages == {i \in 1..Len(fn.result) : fn.result[i][1] = "Invalid margin key: "}
    IN  /\ formatMessages \cup marginMessages = 1..Len(fn.result)
        /\ Cardinality(formatMessages) = (IF BadFormat(fn.arg) THEN 1 ELSE 0)
        /\ \A i \in formatMessages : fn.result[i][2] = fn.arg["format"]
        /\ Cardinality(marginMessages) = Cardinality(BadMarginKeys(fn.arg))
        /\ \A k \in BadMarginKeys(fn.arg) :
             \E i \in marginMessages : fn.result[i][2] = fn.arg["margin"][k][1]
        /\ fn.result = <<>> <=> (~BadFormat(fn.arg) /\ BadMarginKeys(fn.arg) = {})

\* C27, witness: options with an unknown format and two unknown margin keys
\* have been validated.
C27_Witness ==
  /\ fn.op = "validatePdfOptions"
  /\ BadFormat(fn.arg)
  /\ Cardinality(BadMarginKeys(fn.arg)) = 2
  /\ Len(fn.result) = 3

\* C28: a call of JsonConverter.convert on valid JSON, whatever its root,
\* its title field and the display mode, returns a document; a call on a
\* text that is not JSON fails with the Invalid JSON error.
C28_ValidJsonConverts ==
  (cv.converter = "json" /\ cv.pc \in {"returned", "thrown"}) =>
    IF cv.content.isText /\ ~JsonParses(cv.content.text)
    THEN cv.pc = "thrown" /\ cv.error[1] = "Invalid JSON: "
    ELSE cv.pc = "returned" /\ cv.html /= <<>>

\* a template with each placeholder replaced by its value as it is
BoundLiterally(template, title, content, style) ==
  Concat([i \in 1..Len(template) |->
            CASE template[i].v = "{{title}}" -> title
              [] template[i].v = "{{content}}" -> content
              [] template[i].v = "{{style}}" -> style
              [] OTHER -> <<template[i]>>])

\* C29: the document a converter returns from the template is the template
\* with each of the three placeholders replaced by exactly its value: the
\* escaped title, the content fragment and the style sheet, whatever
\* placeholder text or $-sequence the title or the content holds.
C29_BindingIsLiteral ==
  (cv.pc = "returned" /\ cv.template /= <<>>) =>
    cv.html = BoundLiterally(cv.template, T(escapeHtml(cv.title.s)), cv.body, getDefaultStyles)

\* C30: while a call of convertFile reads its input and converts it, no
\* output file and no directory changes; a call that fails there fails with
\* the wrapped error; the step that returns has written exactly the bytes
\* the Render Adapter printed for the engine at the output path, and the
\* path is what the caller gets.
C30_WriteAfterSuccess ==
  [][/\ cf.pc \in {"read", "convert"} =>
          /\ fsOut' = fsOut
          /\ fsDirs' = fsDirs
          /\ cf'.pc = "thrown" => cf'.error[1] = "File conversion failed: "
     /\ fsOut' /= fsOut => (cf.pc = "write" /\ cf'.pc = "returned")
     /\ (cf.pc /= "returned" /\ cf'.pc = "returned") =>
          /\ DOMAIN fsOut' = DOMAIN fsOut \cup {cf.output}
          /\ fsOut'[cf.output] = cf.bytes
          /\ \A p \in DOMAIN fsOut \ {cf.output} : fsOut'[p] = fsOut[p]
          /\ \E i \in DOMAIN printed :
               /\ printed[i].caller = Engine
               /\ PdfOf(printed[i].html, printed[i].layout) = cf.bytes
     /\ (cf.pc = "returned" /\ cf'.pc = "none") =>
          batch'.results[Len(batch'.results)] =
            [success |-> TRUE, file |-> cf.output, error |-> <<>>]]_vars

\* C30 witness: in one batch a first file was converted and written, and the
\* call for a second file has failed in its converter: its output path does
\* not exist and the first file still holds its bytes.
C30_Witness ==
  /\ cf.pc = "thrown"
  /\ cf.input = <<"in", "bad.json">>
  /\ cf.bytes = NoBytes
  /\ cf.output \notin DOMAIN fsOut
  /\ <<"out", "a.pdf">> \in DOMAIN fsOut
  /\ fsOut[<<"out", "a.pdf">>] /= NoBytes

====
